---- MODULE Spec2Model ----
(***************************************************************************)
(* Plum ecoMAX integration for Home Assistant.                             *)
(*                                                                         *)
(* Two state machines of the repository are modelled:                      *)
(*   - the config-flow wizard (config_flow.py, class ConfigFlow), driven   *)
(*     by the host's flow manager: menu, tcp/serial forms, the identify    *)
(*     and discover progress steps with their background tasks, finish and *)
(*     the abort steps;                                                    *)
(*   - the entity base class (entity.py, class EcomaxEntity) attached to a *)
(*     device-state object with its subscribe/subscribe_once/dispatch      *)
(*     callback registry.                                                  *)
(***************************************************************************)
EXTENDS Integers, Sequences, FiniteSets, TLC

VARIABLES
    \* ---- wizard: fields of ConfigFlow (config_flow.py:131-137)
    connection,      \* self.connection: "None" or the connection handle
    device,          \* self.device: "None" or the device handle
    identify_task,   \* self.identify_task: 0 (None) or a task handle
    discover_task,   \* self.discover_task: 0 (None) or a task handle
    init_info,       \* self.init_info: mapping key -> value
    \* ---- wizard: the host around the flow
    tasks,           \* every task created so far, by handle: [kind, pc]
    conn_open,       \* whether the connection object is open
    unique_id,       \* the flow's unique id ("None" until set)
    cur_step,        \* the step the flow manager will call next
    flow_status,     \* "none", "active", "done" (entry or abort), "removed"
    progress_task,   \* the task of the last progress result (0: none)
    result,          \* the flow result returned last
    reported,        \* every flow result returned to the caller, in order
    entries,         \* the configuration entries this flow created
    configured,      \* unique ids of the entries that exist already
    dev,             \* the physical device: product, modules, sub-devices
    connect_outcome, \* how the last connection attempt ended
    submits,         \* form submissions so far
    \* ---- entity: EcomaxEntity and the device-state object
    data,            \* device.data: "NoValue" or the value of the key
    callbacks,       \* device callbacks registered on the key, in order
    attached,        \* whether the entity is added to hass
    gen,             \* number of attaches so far (the current attach)
    attr_available,  \* self._attr_available
    native_value,    \* the entity's state ("Unknown" until updated)
    last_value,      \* on_change filter state per attach ("NoValue": none)
    set_available_calls, \* executions of async_set_available per attach
    fed,                 \* per attach: the values its filter was called with
    forwarded,           \* per attach: the values its filter passed on
    present_at_attach,   \* per attach: did the key hold a value at attach
    attached_at,         \* per attach: the dispatches before the attach
    dispatches,      \* dispatches on the key so far
    \* ---- entity: what its availability depends on
    connected,       \* connection.connected.is_set()
    platform,        \* the entity's class: "sensor" or "select"
    always_available, \* entity_description.always_available
    \* ---- entity: its description
    key,             \* entity_description.key
    \* ---- entity: time and the throttle filter
    now,             \* time.monotonic(), in seconds
    last_called,     \* per attach: when its throttle last let a value pass
    fed_at,          \* per attach: the time of each value of fed
    forwarded_at,    \* per attach: the time of each value of forwarded
    \* ---- entity: the meter and its aggregate filter
    sum,             \* per attach: self._sum of its aggregate, in 1/100
    last_update,     \* per attach: self._last_update of its aggregate
    meter_value,     \* the meter's _attr_native_value, in 1/100
    restored,        \* the last sensor data the meter's attach was given
    last_reset,      \* the meter's _attr_last_reset (a time)
    commands,        \* the meter's reset and calibrate calls, in order
    attach_pc,       \* where the meter's async_added_to_hass is
    \* ---- entity: the switch
    is_on,           \* the switch's _attr_is_on: "None", "True" or "False"
    writes,          \* the values written with device.set_nowait, in order
    \* ---- device: a dispatch in progress
    pending,         \* the callbacks of the copied list still to be called
    pending_value,   \* the value being dispatched ("NoValue": no dispatch)
    \* ---- connection: its callbacks and a fan-out in progress
    ecomax,          \* connection.ecomax: "None" or "device"
    conn_callbacks,  \* connection._callbacks, a set
    fan_state,       \* "idle", "running", "done", or the error that left it
    fan_iter,        \* the callbacks the set iterator has still to yield
    fan_used,        \* the size of the set when the iterator was made
    fan_invoked,     \* the callbacks called by the fan-out
    fan_start,       \* the callbacks registered when the fan-out began
    \* ---- integration: setup and unload of config entries
    entry_state,     \* per entry: the state the host keeps for it
    hass_data,       \* hass.data[DOMAIN]: pairs <<entry id, connection>>
    setups,          \* per connection constructed by a setup: what it did
    close_calls,     \* per connection: the times close() was awaited
    unload_results,  \* the calls of async_unload_entry and their results
    \* ---- integration: migration of a config entry
    config_entry,    \* the entry: its version, the keys of its data, values
    responding,      \* whether the device answers within the timeouts
    migrate_pc,      \* where async_migrate_entry is, or what it returned
    migrate_log,     \* the versions async_migrate_entry assigned, in order
    migrate_start,   \* the entry as async_migrate_entry received it
    \* ---- water heater
    heater,          \* the water heater's _attr_ temperatures (-1: None)
    device_attrs     \* the ecomax's water_heater_ attributes (-1: absent)

wizard_vars == <<connection, device, identify_task, discover_task, init_info,
                 tasks, conn_open, unique_id, cur_step, flow_status,
                 progress_task, result, reported, entries, configured, dev,
                 connect_outcome, submits>>

avail_vars == <<connected, platform, always_available>>

\* What the entity's and the device object's operations assign.
entity_state == <<callbacks, attr_available, native_value, last_value,
                  set_available_calls, fed, forwarded, last_called, fed_at,
                  forwarded_at, sum, last_update, meter_value, is_on,
                  last_reset>>

entity_vars == <<data, callbacks, attached, gen, attr_available, native_value,
                 last_value, set_available_calls, present_at_attach,
                 attached_at, dispatches, avail_vars, fed, forwarded, key,
                 now, last_called, fed_at, forwarded_at, sum, last_update,
                 meter_value, restored, is_on, writes, pending,
                 pending_value, last_reset, commands, attach_pc>>

dispatch_vars == <<pending, pending_value>>

fan_vars == <<fan_state, fan_iter, fan_used, fan_invoked, fan_start>>

setup_vars == <<entry_state, hass_data, setups, close_calls, unload_results>>

migrate_vars == <<config_entry, responding, migrate_pc, migrate_log,
                  migrate_start>>

heater_vars == <<heater, device_attrs>>

component_vars == <<ecomax, conn_callbacks, fan_vars, setup_vars,
                    migrate_vars, heater_vars>>

vars == <<wizard_vars, entity_vars, component_vars>>

(***************************************************************************)
(* Bounds of the model.                                                    *)
(***************************************************************************)
\* Polls of a progress step while its task is still pending.
MaxPolls == 4
\* Submissions of a connection form that end in a connection failure.
MaxSubmits == 1
\* Attaches of the entity.
MaxAttach == 2
\* Dispatches on the entity's key.
MaxDispatch == 3
\* The clock's last second.
MaxTime == 12
\* The clock's last second where the meter is followed.
MaxMeterTime == 60
\* Writes to the switch.
MaxWrites == 2
\* Calls of async_setup_entry.
MaxSetups == 3
\* Reset and calibrate calls of the meter.
MaxCommands == 1
\* Calls of async_unload_entry.
MaxUnloads == 3

(***************************************************************************)
(* Constants of the program.                                               *)
(***************************************************************************)
CONF_HOST == "host"
CONF_PORT == "port"
CONF_DEVICE == "device"
CONF_BAUDRATE == "baudrate"
CONF_CONNECTION_TYPE == "connection_type"
CONF_UID == "uid"
CONF_MODEL == "model"
CONF_PRODUCT_TYPE == "product_type"
CONF_PRODUCT_ID == "product_id"
CONF_SOFTWARE == "software"
CONF_SUB_DEVICES == "sub_devices"
CONF_CAPABILITIES == "capabilities"
CONNECTION_TYPE_TCP == "TCP"
CONNECTION_TYPE_SERIAL == "Serial"
DEFAULT_PORT == 8899

\* pyplumio's ProductType enumeration: ECOMAX_P = 0, ECOMAX_I = 1.
ProductType == {0, 1}

(***************************************************************************)
(* Model names are sequences of characters.                                *)
(***************************************************************************)
Letters == {"E", "M", "e", "c", "o", "A", "X", "P", "i", "g"}
Digits == {"0", "5", "8"}
Whitespace == {" "}

RECURSIVE RunLen(_, _, _)
\* Length of the longest run of characters of class cls in s from index i.
RunLen(s, i, cls) ==
    IF i <= Len(s) /\ s[i] \in cls THEN 1 + RunLen(s, i + 1, cls) ELSE 0

\* re.match(r"^([A-Z]+)\s{0,}([0-9]{3,})(.+)$", model_name, re.IGNORECASE):
\* a run of letters, optional whitespace, at least three digits and at least
\* one more character (which may be a digit the number group gives back).
format_model_name(model_name) ==
    LET nl == RunLen(model_name, 1, Letters)
        ns == RunLen(model_name, nl + 1, Whitespace)
        nd == RunLen(model_name, nl + ns + 1, Digits)
        rest == Len(model_name) - (nl + ns + nd)
        matches == nl >= 1 /\ nd >= 3 /\ (rest >= 1 \/ nd >= 4)
        model_device == SubSeq(model_name, 1, nl)
        tail == SubSeq(model_name, nl + ns + 1, Len(model_name))
    IN  IF matches
        THEN (IF model_device = <<"E", "M">>
              THEN <<"e", "c", "o", "M", "A", "X">>
              ELSE model_device) \o <<" ">> \o tail
        ELSE model_name

EM850P == <<"E", "M", "8", "5", "0", "P">>
ecoMAX_850P == <<"e", "c", "o", "M", "A", "X", " ", "8", "5", "0", "P">>

(***************************************************************************)
(* Inputs of the wizard.                                                   *)
(***************************************************************************)
TcpInputs == {(CONF_HOST :> "localhost") @@ (CONF_PORT :> DEFAULT_PORT)}
SerialInputs == {(CONF_DEVICE :> "/dev/ttyUSB0") @@ (CONF_BAUDRATE :> 115200)}

\* How connection.connect() may end under asyncio.wait_for.
ConnectOutcomes == {"ok", "ConnectionFailedError", "TimeoutError", "Exception"}

Uids == {"TEST", "OTHER"}
ModelNames == {EM850P, ecoMAX_850P}
\* Product types a device may report: 2 is no member of ProductType.
ReportedTypes == {0, 2}
Products ==
    [uid : Uids, model : ModelNames, type : ReportedTypes, id : {4}]
Devices ==
    [product : Products,
     modules : {[module_a |-> "6.10.32.K1"]},
     sub_devices : {<<>>, <<"water_heater">>}]

\* user_input=None
NoInput == <<>>

NoResult ==
    [type |-> "None", step_id |-> "None", reason |-> "None",
     errors |-> "None", task |-> 0]

(***************************************************************************)
(* Flow results (the host's FlowHandler helpers the steps return).         *)
(***************************************************************************)
async_show_menu(step_id) == [NoResult EXCEPT !.type = "menu", !.step_id = step_id]

async_show_form(step_id, errors) ==
    [NoResult EXCEPT !.type = "form", !.step_id = step_id, !.errors = errors]

async_show_progress(step_id, task) ==
    [NoResult EXCEPT !.type = "progress", !.step_id = step_id, !.task = task]

async_show_progress_done(next_step_id) ==
    [NoResult EXCEPT !.type = "progress_done", !.step_id = next_step_id]

async_abort(reason) == [NoResult EXCEPT !.type = "abort", !.reason = reason]

async_create_entry == [NoResult EXCEPT !.type = "create_entry"]

(***************************************************************************)
(* The flow object and what its steps read and write, as one record.       *)
(***************************************************************************)
Self ==
    [connection |-> connection, device |-> device,
     identify_task |-> identify_task, discover_task |-> discover_task,
     init_info |-> init_info, tasks |-> tasks, conn_open |-> conn_open,
     unique_id |-> unique_id, progress_task |-> progress_task,
     entries |-> entries, result |-> NoResult]

Pending == {"get_device", "get_product", "get_modules", "get_sub_devices"}

done_Never(s, t) == FALSE

\* asyncio.Task.done()
done(s, t) == s.tasks[t].pc \notin Pending

\* hass.async_create_task(coro): a new task, not yet run.
async_create_task(s, kind) ==
    Append(s.tasks, [kind |-> kind,
                     pc |-> IF kind = "identify" THEN "get_device"
                            ELSE "get_modules"])

\* Returning a result: the flow handler remembers the task of a progress
\* result and forgets it with any other result.
Return(s, res) ==
    [s EXCEPT !.result = res,
              !.progress_task = IF res.type = "progress" THEN res.task ELSE 0]

(***************************************************************************)
(* ConfigFlow steps.                                                       *)
(***************************************************************************)
async_step_user(s) == Return(s, async_show_menu("user"))

async_step_identify_AlwaysCreate(s) ==
    LET s1 == [s EXCEPT !.tasks = async_create_task(s, "identify"),
                        !.identify_task = Len(s.tasks) + 1]
    IN  Return(s1, async_show_progress("identify", s1.identify_task))

async_step_identify_TimeoutPending(s) ==
    LET s1 == IF s.identify_task = 0
              THEN [s EXCEPT !.tasks = async_create_task(s, "identify"),
                             !.identify_task = Len(s.tasks) + 1]
              ELSE s
        t == s1.identify_task
        s2 == [s1 EXCEPT !.identify_task = 0]
    IN  IF ~done(s1, t) \/ s1.tasks[t].pc = "TimeoutError"
        THEN Return(s1, async_show_progress("identify", t))
        ELSE IF s1.tasks[t].pc = "UnsupportedProduct"
        THEN Return(s2, async_show_progress_done("unsupported_device"))
        ELSE Return(s2, async_show_progress_done("discover"))

async_step_identify(s) ==
    LET s1 == IF s.identify_task = 0
              THEN [s EXCEPT !.tasks = async_create_task(s, "identify"),
                             !.identify_task = Len(s.tasks) + 1]
              ELSE s
        t == s1.identify_task
        s2 == [s1 EXCEPT !.identify_task = 0]
    IN  IF ~done(s1, t)
        THEN Return(s1, async_show_progress("identify", t))
        ELSE IF s1.tasks[t].pc = "TimeoutError"
        THEN Return(s2, async_show_progress_done("device_not_found"))
        ELSE IF s1.tasks[t].pc = "UnsupportedProduct"
        THEN Return(s2, async_show_progress_done("unsupported_device"))
        ELSE Return(s2, async_show_progress_done("discover"))

\* async_set_unique_id, then _abort_if_unique_id_configured: the record with
\* the unique id set, and whether AbortFlow is raised.
_async_set_unique_id(s, uid) ==
    [self |-> [s EXCEPT !.unique_id = uid], AbortFlow |-> uid \in configured]

async_step_discover_CheckLate(s) ==
    LET u == _async_set_unique_id(s, s.init_info[CONF_UID])
        s0 == u.self
        s1 == IF s0.discover_task = 0
              THEN [s0 EXCEPT !.tasks = async_create_task(s0, "discover"),
                              !.discover_task = Len(s0.tasks) + 1]
              ELSE s0
        t == s1.discover_task
        s2 == [s1 EXCEPT !.discover_task = 0]
    IN  IF ~done(s1, t)
        THEN Return(s1, async_show_progress("discover", t))
        ELSE IF u.AbortFlow
        THEN [s1 EXCEPT !.result = async_abort("already_configured")]
        ELSE IF s1.tasks[t].pc = "TimeoutError"
        THEN Return(s2, async_show_progress_done("discovery_failed"))
        ELSE Return(s2, async_show_progress_done("finish"))

async_step_discover(s) ==
    LET u == _async_set_unique_id(s, s.init_info[CONF_UID])
        s0 == u.self
        s1 == IF s0.discover_task = 0
              THEN [s0 EXCEPT !.tasks = async_create_task(s0, "discover"),
                              !.discover_task = Len(s0.tasks) + 1]
              ELSE s0
        t == s1.discover_task
        s2 == [s1 EXCEPT !.discover_task = 0]
    IN  IF u.AbortFlow
        THEN [s0 EXCEPT !.result = async_abort("already_configured")]
        ELSE IF ~done(s1, t)
        THEN Return(s1, async_show_progress("discover", t))
        ELSE IF s1.tasks[t].pc = "TimeoutError"
        THEN Return(s2, async_show_progress_done("discovery_failed"))
        ELSE Return(s2, async_show_progress_done("finish"))

async_step_finish(s) ==
    LET s1 == IF s.connection # "None" THEN [s EXCEPT !.conn_open = FALSE]
              ELSE s
    IN  Return([s1 EXCEPT !.entries =
                              @ \cup {[title |-> s1.init_info[CONF_MODEL],
                                       data |-> s1.init_info]}],
               async_create_entry)

async_step_device_not_found(s) == Return(s, async_abort("no_devices_found"))

async_step_unsupported_device(s) == Return(s, async_abort("unsupported_device"))

async_step_discovery_failed(s) == Return(s, async_abort("discovery_failed"))

validate_input_TimeoutAsFailure(outcome) ==
    CASE outcome = "ConnectionFailedError" -> "CannotConnect"
      [] outcome = "TimeoutError" -> "CannotConnect"
      [] outcome = "Exception" -> "Exception"
      [] OTHER -> "connection"

\* validate_input: the connection, or the exception it raises.
validate_input(outcome) ==
    CASE outcome = "ConnectionFailedError" -> "CannotConnect"
      [] outcome = "TimeoutError" -> "TimeoutConnect"
      [] outcome = "Exception" -> "Exception"
      [] OTHER -> "connection"

\* The body shared by async_step_tcp and async_step_serial.
StepConnect(s, step_id, connection_type, user_input, outcome) ==
    LET v == validate_input(outcome)
    IN  IF user_input = NoInput
        THEN Return(s, async_show_form(step_id, "None"))
        ELSE IF v = "connection"
        THEN async_step_identify(
                 [s EXCEPT !.connection = "connection", !.conn_open = TRUE,
                           !.init_info = user_input @@
                               (CONF_CONNECTION_TYPE :> connection_type)])
        ELSE IF v = "CannotConnect"
        THEN Return(s, async_show_form(step_id, "cannot_connect"))
        ELSE IF v = "TimeoutConnect"
        THEN Return(s, async_show_form(step_id, "timeout_connect"))
        ELSE Return(s, async_show_form(step_id, "unknown"))

async_step_tcp(s, user_input, outcome) ==
    StepConnect(s, "tcp", CONNECTION_TYPE_TCP, user_input, outcome)

async_step_serial(s, user_input, outcome) ==
    StepConnect(s, "serial", CONNECTION_TYPE_SERIAL, user_input, outcome)

(***************************************************************************)
(* The background tasks: one step per awaited device request.  answers is  *)
(* whether the request is answered before its timeout.                     *)
(***************************************************************************)
_async_identify_device_NoValidation(s, t, answers) ==
    LET pc == s.tasks[t].pc
        product == dev.product
    IN  IF ~answers
        THEN [s EXCEPT !.tasks[t].pc = "TimeoutError"]
        ELSE IF pc = "get_device"
        THEN [s EXCEPT !.device = "ecomax", !.tasks[t].pc = "get_product"]
        ELSE [s EXCEPT !.tasks[t].pc = "ok",
                       !.init_info =
                           (CONF_UID :> product.uid)
                           @@ (CONF_MODEL :> product.model)
                           @@ (CONF_PRODUCT_TYPE :> product.type)
                           @@ (CONF_PRODUCT_ID :> product.id)
                           @@ s.init_info]

_async_identify_device(s, t, answers) ==
    LET pc == s.tasks[t].pc
        product == dev.product
    IN  IF ~answers
        THEN [s EXCEPT !.tasks[t].pc = "TimeoutError"]
        ELSE IF pc = "get_device"
        THEN [s EXCEPT !.device = "ecomax", !.tasks[t].pc = "get_product"]
        ELSE IF product.type \notin ProductType
        THEN [s EXCEPT !.tasks[t].pc = "UnsupportedProduct"]
        ELSE [s EXCEPT !.tasks[t].pc = "ok",
                       !.init_info =
                           (CONF_UID :> product.uid)
                           @@ (CONF_MODEL :> product.model)
                           @@ (CONF_PRODUCT_TYPE :> product.type)
                           @@ (CONF_PRODUCT_ID :> product.id)
                           @@ s.init_info]

\* connection.async_get_sub_devices is bounded by the device timeout: it
\* returns the sub-device list or raises TimeoutError.
async_get_sub_devices(answers) ==
    IF answers THEN dev.sub_devices ELSE "TimeoutError"

_async_discover_modules(s, t, answers) ==
    LET pc == s.tasks[t].pc
        sub_devices == async_get_sub_devices(answers)
    IN  IF ~answers
        THEN [s EXCEPT !.tasks[t].pc = "TimeoutError"]
        ELSE IF pc = "get_modules"
        THEN [s EXCEPT !.tasks[t].pc = "get_sub_devices"]
        ELSE [s EXCEPT !.tasks[t].pc = "ok",
                       !.init_info =
                           (CONF_SOFTWARE :> dev.modules)
                           @@ (CONF_SUB_DEVICES :> sub_devices)
                           @@ s.init_info]

(***************************************************************************)
(* The host's flow manager: it calls the step named by cur_step, follows a *)
(* progress_done result to the step it names at once, keeps any other      *)
(* result as the current step, and removes the flow (cancelling the task   *)
(* of its last progress result) on abort and on create_entry.              *)
(***************************************************************************)
call_step(step_id, s) ==
    CASE step_id = "identify" -> async_step_identify(s)
      [] step_id = "discover" -> async_step_discover(s)
      [] step_id = "finish" -> async_step_finish(s)
      [] step_id = "device_not_found" -> async_step_device_not_found(s)
      [] step_id = "unsupported_device" -> async_step_unsupported_device(s)
      [] step_id = "discovery_failed" -> async_step_discovery_failed(s)

handle_step(step_id, s) ==
    LET r1 == call_step(step_id, s)
        r2 == call_step(r1.result.step_id, r1)
    IN  IF r1.result.type # "progress_done" THEN r1
        ELSE IF r2.result.type # "progress_done" THEN r2
        ELSE call_step(r2.result.step_id, r2)

\* task.cancel() on a task that has not finished.
cancel(ts, t) ==
    IF t # 0 /\ ts[t].pc \in Pending THEN [ts EXCEPT ![t].pc = "cancelled"]
    ELSE ts

Terminal == {"abort", "create_entry"}

\* The flow manager takes the result r of a step.
Commit(r) ==
    /\ connection' = r.connection
    /\ device' = r.device
    /\ identify_task' = r.identify_task
    /\ discover_task' = r.discover_task
    /\ init_info' = r.init_info
    /\ conn_open' = r.conn_open
    /\ unique_id' = r.unique_id
    /\ entries' = r.entries
    /\ result' = r.result
    /\ reported' = Append(reported, r.result)
    /\ IF r.result.type \in Terminal
       THEN /\ flow_status' = "done"
            /\ tasks' = cancel(r.tasks, r.progress_task)
            /\ progress_task' = 0
            /\ cur_step' = cur_step
       ELSE /\ flow_status' = "active"
            /\ tasks' = r.tasks
            /\ progress_task' = r.progress_task
            /\ cur_step' = r.result.step_id

NumProgress == Cardinality({i \in DOMAIN reported : reported[i].type = "progress"})

CurrentTask ==
    IF cur_step = "identify" THEN identify_task
    ELSE IF cur_step = "discover" THEN discover_task
    ELSE 0

(***************************************************************************)
(* Wizard actions.                                                         *)
(***************************************************************************)
\* The user starts the flow: async_step_user shows the menu.
FlowInit ==
    /\ flow_status = "none"
    /\ Commit(async_step_user(Self))
    /\ UNCHANGED <<configured, dev, connect_outcome, submits, entity_vars,
                   component_vars>>

\* The user picks tcp or serial in the menu: the step shows its form.
MenuSelect ==
    /\ flow_status = "active" /\ cur_step = "user"
    /\ \E next_step_id \in {"tcp", "serial"} :
          Commit(IF next_step_id = "tcp"
                 THEN async_step_tcp(Self, NoInput, "ok")
                 ELSE async_step_serial(Self, NoInput, "ok"))
    /\ UNCHANGED <<configured, dev, connect_outcome, submits, entity_vars,
                   component_vars>>

\* The user submits the tcp form; the connection attempt ends as outcome.
SubmitTcp ==
    /\ flow_status = "active" /\ cur_step = "tcp"
    /\ \E user_input \in TcpInputs, outcome \in ConnectOutcomes :
          /\ outcome # "ok" => submits < MaxSubmits
          /\ Commit(async_step_tcp(Self, user_input, outcome))
          /\ connect_outcome' = outcome
    /\ submits' = submits + 1
    /\ UNCHANGED <<configured, dev, entity_vars,
                   component_vars>>

\* The user submits the serial form.
SubmitSerial ==
    /\ flow_status = "active" /\ cur_step = "serial"
    /\ \E user_input \in SerialInputs, outcome \in ConnectOutcomes :
          /\ outcome # "ok" => submits < MaxSubmits
          /\ Commit(async_step_serial(Self, user_input, outcome))
          /\ connect_outcome' = outcome
    /\ submits' = submits + 1
    /\ UNCHANGED <<configured, dev, entity_vars,
                   component_vars>>

\* The caller (or the host, when the progress task ends) configures the
\* flow again without input: the current progress step runs.
Poll ==
    /\ flow_status = "active" /\ cur_step \in {"identify", "discover"}
    /\ (CurrentTask # 0 /\ ~done(Self, CurrentTask)) => NumProgress < MaxPolls
    /\ Commit(handle_step(cur_step, Self))
    /\ UNCHANGED <<configured, dev, connect_outcome, submits, entity_vars,
                   component_vars>>

\* One awaited request of the identify task is answered or times out.
IdentifyTaskStep ==
    /\ \E t \in DOMAIN tasks, answers \in BOOLEAN :
          /\ tasks[t].kind = "identify" /\ tasks[t].pc \in Pending
          /\ LET r == _async_identify_device(Self, t, answers)
             IN  /\ tasks' = r.tasks
                 /\ device' = r.device
                 /\ init_info' = r.init_info
    /\ UNCHANGED <<connection, identify_task, discover_task, conn_open,
                   unique_id, cur_step, flow_status, progress_task, result,
                   reported, entries, configured, dev, connect_outcome,
                   submits, entity_vars,
                   component_vars>>

\* One awaited request of the discover task is answered or times out.
DiscoverTaskStep ==
    /\ \E t \in DOMAIN tasks, answers \in BOOLEAN :
          /\ tasks[t].kind = "discover" /\ tasks[t].pc \in Pending
          /\ LET r == _async_discover_modules(Self, t, answers)
             IN  /\ tasks' = r.tasks
                 /\ device' = r.device
                 /\ init_info' = r.init_info
    /\ UNCHANGED <<connection, identify_task, discover_task, conn_open,
                   unique_id, cur_step, flow_status, progress_task, result,
                   reported, entries, configured, dev, connect_outcome,
                   submits, entity_vars,
                   component_vars>>

\* The user abandons the flow: the flow manager removes it, cancelling the
\* task of its last progress result.  ConfigFlow defines no async_remove.
Abandon ==
    /\ flow_status = "active"
    /\ flow_status' = "removed"
    /\ tasks' = cancel(tasks, progress_task)
    /\ progress_task' = 0
    /\ UNCHANGED <<connection, device, identify_task, discover_task,
                   init_info, conn_open, unique_id, cur_step, result,
                   reported, entries, configured, dev, connect_outcome,
                   submits, entity_vars,
                   component_vars>>

(***************************************************************************)
(* The entity and the device-state object it subscribes to.                *)
(***************************************************************************)
Values == {"65.0", "66.2"}

\* The increments of fuel burned that the device reports: decimal numbers.
Increments == {"0.1", "0.2", "0.05"}

\* The parameter values that stand for on and off in a switch description.
STATE_ON == "on"
STATE_OFF == "off"

\* What the device reports for the entity's key.
KeyValues ==
    IF key = "fuel_burned" THEN Increments
    ELSE IF key = "ecomax_control" THEN {STATE_ON, STATE_OFF}
    ELSE Values

\* The number a reported increment stands for, in 1/100.
Num(value) ==
    CASE value = "0.1" -> 10
      [] value = "0.2" -> 20
      [] value = "0.05" -> 5

\* None where a number is expected.
NoNumber == -1

\* What async_get_last_sensor_data returns: None, or the stored value.
LastSensorData == {NoNumber, 120}

Gens == 1 .. MaxAttach

\* The entity classes: EcomaxSensor, EcomaxBinarySensor and EcomaxSwitch set
\* _attr_available to False when constructed ("sensor"); EcomaxSelect does
\* not assign it ("select").
Platforms == {"sensor", "select"}

\* self._attr_available after __init__: False where __init__ assigns it,
\* otherwise the class attribute inherited from the host's Entity, True.
_attr_available_default(p) == IF p = "select" THEN TRUE ELSE FALSE

\* EcomaxEntity.available
available == connected /\ attr_available

\* The entity with the device's callback list, as one record.
Entity ==
    [callbacks |-> callbacks, attr_available |-> attr_available,
     native_value |-> native_value, last_value |-> last_value,
     set_available_calls |-> set_available_calls,
     fed |-> fed, forwarded |-> forwarded, last_called |-> last_called,
     fed_at |-> fed_at, forwarded_at |-> forwarded_at, sum |-> sum,
     last_update |-> last_update, meter_value |-> meter_value,
     is_on |-> is_on, last_reset |-> last_reset]

\* The closure async_set_available of attach g.
async_set_available(e, g) ==
    [e EXCEPT !.attr_available = TRUE, !.set_available_calls[g] = @ + 1]

\* EcomaxSwitch.async_update
EcomaxSwitch_async_update(e, value) ==
    [e EXCEPT !.is_on = CASE value = STATE_ON -> "True"
                          [] value = STATE_OFF -> "False"
                          [] OTHER -> "None"]

\* async_update of the entity's class; EcomaxSensor.async_update with
\* value_fn the identity.
async_update(e, value) ==
    IF platform = "switch" THEN EcomaxSwitch_async_update(e, value)
    ELSE [e EXCEPT !.native_value = value]

\* EcomaxSwitch.async_turn_on: the write is issued without waiting for the
\* device and the entity shows the requested state.
async_turn_on(e) == [e EXCEPT !.is_on = "True"]

\* EcomaxSwitch.async_turn_off
async_turn_off(e) == [e EXCEPT !.is_on = "False"]

\* pyplumio's on_change filter around async_update, created by attach g.
on_change(e, g, value) ==
    IF e.last_value[g] = "NoValue" \/ e.last_value[g] # value
    THEN async_update([e EXCEPT !.last_value[g] = value,
                                !.forwarded[g] = Append(@, value),
                                !.forwarded_at[g] = Append(@, now)],
                      value)
    ELSE e

\* EcomaxMeter.async_update: the value is added to the stored value; adding
\* to None raises and leaves the stored value as it is.
EcomaxMeter_async_update_Overwrite(e, value) ==
    [e EXCEPT !.meter_value = value]

EcomaxMeter_async_update(e, value) ==
    IF value = NoNumber \/ e.meter_value = NoNumber THEN e
    ELSE [e EXCEPT !.meter_value = @ + value]

async_calibrate_meter_Add(e, value) == [e EXCEPT !.meter_value = @ + value]

\* EcomaxMeter.async_calibrate_meter
async_calibrate_meter(e, value) == [e EXCEPT !.meter_value = value]

\* EcomaxMeter.async_reset_meter: the meter's state class is TOTAL, so the
\* time of the reset is kept.
async_reset_meter(e) == [e EXCEPT !.last_reset = now, !.meter_value = 0]

\* seconds of the aggregate filter of the meter description.
AGGREGATE_SECONDS == 30

\* pyplumio's aggregate filter around the meter's async_update, created by
\* attach g: adds the value to its sum and, when seconds have passed since
\* the last update, passes the sum on and starts again from 0.
aggregate(e, g, value, seconds) ==
    LET total == e.sum[g] + Num(value)
    IN  IF now - e.last_update[g] >= seconds
        THEN EcomaxMeter_async_update(
                [e EXCEPT !.sum[g] = 0, !.last_update[g] = now,
                          !.forwarded[g] = Append(@, total),
                          !.forwarded_at[g] = Append(@, now)],
                total)
        ELSE [e EXCEPT !.sum[g] = total]

\* self._last_called of a throttle that has let no value pass yet.
NoTime == -1

\* A throttle that hands the value it drops to the inner filter's memory.
throttle_AdvancesInner(e, g, value, seconds) ==
    IF e.last_called[g] = NoTime \/ now - e.last_called[g] >= seconds
    THEN on_change([e EXCEPT !.last_called[g] = now], g, value)
    ELSE [e EXCEPT !.last_value[g] = value]

\* pyplumio's throttle filter around callback on_change, created by attach
\* g: lets a value pass when none has passed before or the last one passed
\* at least seconds ago.
throttle(e, g, value, seconds) ==
    IF e.last_called[g] = NoTime \/ now - e.last_called[g] >= seconds
    THEN on_change([e EXCEPT !.last_called[g] = now], g, value)
    ELSE e

\* The filter called with value at the current time.
Fed(e, g, value) ==
    [e EXCEPT !.fed[g] = Append(@, value), !.fed_at[g] = Append(@, now)]

\* seconds of the throttle filters of the sensor descriptions.
THROTTLE_SECONDS == 10

\* The callback without a filter around it.
filter_fn_Unfiltered(e, g, value) ==
    async_update([Fed(e, g, value) EXCEPT !.forwarded[g] = Append(@, value),
                                          !.forwarded_at[g] = Append(@, now)],
                 value)

\* The on_change filter alone, whatever the description.
filter_fn_NoThrottle(e, g, value) == on_change(Fed(e, g, value), g, value)

\* entity_description.filter_fn around async_update, called with value: the
\* description of heating_temp gives throttle(on_change(x), seconds=10), the
\* meter's gives aggregate(x, seconds=30), the description's default is
\* on_change.
filter_fn(e, g, value) ==
    IF key = "heating_temp"
    THEN throttle(Fed(e, g, value), g, value, THROTTLE_SECONDS)
    ELSE IF key = "fuel_burned"
    THEN aggregate(Fed(e, g, value), g, value, AGGREGATE_SECONDS)
    ELSE on_change(Fed(e, g, value), g, value)

\* func of attach g: the filter around this entity's async_update.
Func(g) == [kind |-> "func", gen |-> g, owner |-> "self"]

\* The filter-wrapped update callback of another entity on the same key.
OtherFunc == [kind |-> "func", gen |-> 0, owner |-> "other"]

RECURSIVE remove(_, _)
\* list.remove: s without its first element that satisfies c = s[i].
remove(s, c) ==
    IF s = <<>> THEN <<>>
    ELSE IF Head(s) = c THEN Tail(s)
    ELSE <<Head(s)>> \o remove(Tail(s), c)

\* device.subscribe(key, callback)
subscribe(e, c) == [e EXCEPT !.callbacks = Append(@, c)]

\* device.subscribe_once(key, callback): a wrapper that unsubscribes itself
\* when it is called.
subscribe_once(e, g) ==
    subscribe(e, [kind |-> "once", gen |-> g, owner |-> "self"])

RECURSIVE first_func(_)
\* The first registered callback that compares equal to self.async_update:
\* a filter compares equal to the callback it wraps, and bound methods are
\* equal when they are the same method of the same entity.
first_func(s) ==
    IF s = <<>> THEN <<>>
    ELSE IF Head(s).kind = "func" /\ Head(s).owner = "self" THEN <<Head(s)>>
    ELSE first_func(Tail(s))

\* device.unsubscribe(key, callback): no-op when it is not registered.
unsubscribe(e) ==
    IF first_func(e.callbacks) = <<>> THEN e
    ELSE [e EXCEPT !.callbacks = remove(@, first_func(e.callbacks)[1])]

\* One registered callback called with value.
invoke(e, c, value) ==
    IF c.owner # "self" THEN e
    ELSE IF c.kind = "once"
    THEN async_set_available([e EXCEPT !.callbacks = remove(@, c)], c.gen)
    ELSE filter_fn(e, c.gen, value)

RECURSIVE dispatch(_, _, _)
\* device.dispatch(key, value): every callback of a copy of the list, in
\* registration order.
dispatch(e, copy, value) ==
    IF copy = <<>> THEN e
    ELSE dispatch(invoke(e, Head(copy), value), Tail(copy), value)

\* The state of the filter that attach g creates: an aggregate starts its
\* window when it is created.
new_filter(e, g) == [e EXCEPT !.last_update[g] = now]

async_added_to_hass_NoOnce(e, g) ==
    LET func == Func(g)
        e1 == subscribe(e, func)
    IN  IF data # "NoValue"
        THEN invoke(async_set_available(e1, g), func, data)
        ELSE e1

async_added_to_hass_TwoOnce(e, g) ==
    LET func == Func(g)
        e1 == subscribe(subscribe_once(subscribe_once(new_filter(e, g), g),
                                       g), func)
    IN  IF data # "NoValue"
        THEN invoke(async_set_available(e1, g), func, data)
        ELSE e1

async_added_to_hass_NoReplay(e, g) ==
    subscribe(subscribe_once(e, g), Func(g))

async_added_to_hass(e, g) ==
    LET func == Func(g)
        e1 == subscribe(subscribe_once(new_filter(e, g), g), func)
    IN  IF data # "NoValue"
        THEN invoke(async_set_available(e1, g), func, data)
        ELSE e1

\* EcomaxMeter.async_added_to_hass: the base attach, then the stored value is
\* restored from the last sensor data, or set to 0.0 when there is none.
EcomaxMeter_async_added_to_hass(e, g, last_sensor_data) ==
    [async_added_to_hass(e, g) EXCEPT
        !.meter_value = IF last_sensor_data # NoNumber
                        THEN last_sensor_data
                        ELSE 0]

async_will_remove_from_hass_Keep(e) == e

async_will_remove_from_hass(e) == unsubscribe(e)

SetEntity(e) ==
    /\ callbacks' = e.callbacks
    /\ attr_available' = e.attr_available
    /\ native_value' = e.native_value
    /\ last_value' = e.last_value
    /\ set_available_calls' = e.set_available_calls
    /\ fed' = e.fed
    /\ forwarded' = e.forwarded
    /\ last_called' = e.last_called
    /\ fed_at' = e.fed_at
    /\ forwarded_at' = e.forwarded_at
    /\ sum' = e.sum
    /\ last_update' = e.last_update
    /\ meter_value' = e.meter_value
    /\ is_on' = e.is_on
    /\ last_reset' = e.last_reset

(***************************************************************************)
(* The connection's callbacks (connection.py).                             *)
(***************************************************************************)
\* The callbacks that entities register on the connection.
Callbacks == {"a", "b", "c"}

\* What a callback does when it is awaited: it returns, it raises, or it
\* removes a callback from the connection and returns.
Behaviours ==
    {[does |-> "return", arg |-> "None"], [does |-> "raise", arg |-> "None"]}
    \cup {[does |-> "remove", arg |-> c] : c \in Callbacks}

\* The orders in which a set iterator may yield the elements of S.
Orders(S) ==
    {s \in [1 .. Cardinality(S) -> S] : \A c \in S : \E i \in DOMAIN s : s[i] = c}

\* s without the element c.
Without(s, c) == SelectSeq(s, LAMBDA x : x # c)

\* EcomaxConnection.register_callback, at any time: set.add. An element
\* added while an iterator is open lands before or behind the iterator's
\* position in the table.
RegisterCallback ==
    /\ \E c \in Callbacks :
          /\ conn_callbacks' = conn_callbacks \cup {c}
          /\ IF fan_state = "running" /\ c \notin conn_callbacks
             THEN fan_iter' \in {fan_iter, Append(fan_iter, c)}
             ELSE fan_iter' = fan_iter
    /\ UNCHANGED <<ecomax, fan_state, fan_used, fan_invoked, fan_start,
                   wizard_vars, entity_vars, heater_vars,
                   setup_vars, migrate_vars>>

\* EcomaxConnection.remove_callback: set.discard.
remove_callback(cs, c) == cs \ {c}

\* remove_callback called outside the callbacks of a fan-out.
RemoveCallback ==
    /\ \E c \in Callbacks :
          /\ conn_callbacks' = remove_callback(conn_callbacks, c)
          /\ fan_iter' = Without(fan_iter, c)
    /\ UNCHANGED <<ecomax, fan_state, fan_used, fan_invoked, fan_start,
                   wizard_vars, entity_vars, heater_vars,
                   setup_vars, migrate_vars>>

\* for callback in self._callbacks: the iterator is made.
StartFanout ==
    /\ fan_state' = "running"
    /\ fan_iter' \in Orders(conn_callbacks)
    /\ fan_used' = Cardinality(conn_callbacks)
    /\ fan_invoked' = {}
    /\ fan_start' = conn_callbacks

\* EcomaxConnection.update_entities, up to its loop: nothing happens unless
\* the ecomax has data.
UpdateEntities ==
    /\ fan_state # "running"
    /\ \E has_data \in BOOLEAN :
          IF has_data
          THEN ecomax' = "device" /\ StartFanout
          ELSE UNCHANGED <<ecomax, fan_vars>>
    /\ UNCHANGED <<conn_callbacks, wizard_vars, entity_vars, heater_vars,
                   setup_vars, migrate_vars>>

\* EcomaxConnection.connection_closed, up to its loop.
ConnectionClosed ==
    /\ fan_state # "running"
    /\ ecomax' = "None"
    /\ StartFanout
    /\ UNCHANGED <<conn_callbacks, wizard_vars, entity_vars, heater_vars,
                   setup_vars, migrate_vars>>

\* One turn of the loop of update_entities or connection_closed: the set
\* iterator raises RuntimeError when the set's size is not the one it was made
\* with, else it ends or yields the next callback, which is awaited; an
\* exception of the callback leaves the loop.
FanoutStep ==
    /\ fan_state = "running"
    /\ IF Cardinality(conn_callbacks) # fan_used
       THEN /\ fan_state' = "RuntimeError"
            /\ UNCHANGED <<conn_callbacks, fan_iter, fan_invoked>>
       ELSE IF fan_iter = <<>>
       THEN /\ fan_state' = "done"
            /\ UNCHANGED <<conn_callbacks, fan_iter, fan_invoked>>
       ELSE \E b \in Behaviours :
               /\ fan_invoked' = fan_invoked \cup {Head(fan_iter)}
               /\ fan_state' = IF b.does = "raise" THEN "CallbackError"
                               ELSE "running"
               /\ IF b.does = "remove"
                  THEN /\ conn_callbacks' = remove_callback(conn_callbacks,
                                                            b.arg)
                       /\ fan_iter' = Without(Tail(fan_iter), b.arg)
                  ELSE /\ conn_callbacks' = conn_callbacks
                       /\ fan_iter' = Tail(fan_iter)
    /\ UNCHANGED <<ecomax, fan_used, fan_start, wizard_vars, entity_vars, heater_vars,
                   setup_vars, migrate_vars>>

(***************************************************************************)
(* Setup and unload of a config entry (__init__.py).                       *)
(***************************************************************************)
EntryIds == {"entry_1", "entry_2"}

\* What async_setup_entry and async_unload_entry read and assign.
Hass == [hass_data |-> hass_data, setups |-> setups,
         close_calls |-> close_calls]

\* d[k] = v of a dict kept as a set of pairs.
Put(d, k, v) == {p \in d : p[1] # k} \cup {<<k, v>>}

HasKey(d, k) == \E p \in d : p[1] = k

\* d[k] for a key of d.
Get(d, k) == (CHOOSE p \in d : p[1] = k)[2]

\* d.pop(k)
Pop(d, k) == {p \in d : p[1] # k}

async_setup_entry_StoreFirst(h, entry, outcome) ==
    LET c == Len(h.setups) + 1
        stored == [h EXCEPT !.hass_data = Put(@, entry, c)]
    IN  IF outcome = "timeout"
        THEN [stored EXCEPT !.setups =
                 Append(@, [entry |-> entry, timed_out |-> TRUE, done |-> {},
                            result |-> "ConfigEntryNotReady"])]
        ELSE [stored EXCEPT !.setups =
                 Append(@, [entry |-> entry, timed_out |-> FALSE,
                            done |-> {"services", "events", "forward"},
                            result |-> "True"])]

\* async_setup_entry: a connection is constructed and set up; a timeout of
\* that is raised as ConfigEntryNotReady; otherwise services and events are
\* set up, the connection is stored under the entry id and the platforms are
\* forwarded.
async_setup_entry(h, entry, outcome) ==
    LET c == Len(h.setups) + 1
    IN  IF outcome = "timeout"
        THEN [h EXCEPT !.setups =
                 Append(@, [entry |-> entry, timed_out |-> TRUE, done |-> {},
                            result |-> "ConfigEntryNotReady"])]
        ELSE [h EXCEPT !.setups =
                 Append(@, [entry |-> entry, timed_out |-> FALSE,
                            done |-> {"services", "events", "forward"},
                            result |-> "True"]),
                       !.hass_data = Put(@, entry, c)]

async_unload_entry_NoPop(h, entry, unload_ok) ==
    IF unload_ok /\ HasKey(h.hass_data, entry)
    THEN [h EXCEPT !.close_calls[Get(h.hass_data, entry)] = @ + 1]
    ELSE h

\* async_unload_entry: when the platforms unloaded, the entry's connection
\* is closed and popped; a KeyError of that is passed over. The result is
\* unload_ok.
async_unload_entry(h, entry, unload_ok) ==
    IF unload_ok /\ HasKey(h.hass_data, entry)
    THEN [h EXCEPT !.close_calls[Get(h.hass_data, entry)] = @ + 1,
                   !.hass_data = Pop(@, entry)]
    ELSE h

\* The results hass.config_entries.async_unload_platforms may give: success
\* for an entry whose platforms are not set up.
async_unload_platforms(entry) ==
    IF entry_state[entry] \in {"LOADED", "FAILED_UNLOAD"} THEN BOOLEAN
    ELSE {TRUE}

\* The host sets an entry up: one that is not loaded, or one to be retried.
SetupEntry ==
    /\ Len(setups) < MaxSetups
    /\ \E entry \in EntryIds, outcome \in {"ok", "timeout"} :
          /\ entry_state[entry] \in {"NOT_LOADED", "SETUP_RETRY"}
          /\ LET h == async_setup_entry(Hass, entry, outcome)
             IN  /\ hass_data' = h.hass_data
                 /\ setups' = h.setups
                 /\ close_calls' = h.close_calls
          /\ entry_state' =
                [entry_state EXCEPT ![entry] = IF outcome = "timeout"
                                               THEN "SETUP_RETRY"
                                               ELSE "LOADED"]
    /\ UNCHANGED <<unload_results, ecomax, conn_callbacks, fan_vars,
                   wizard_vars, entity_vars, heater_vars, migrate_vars>>

\* An entry is unloaded, whatever its state.
UnloadEntry ==
    /\ Len(unload_results) < MaxUnloads
    /\ \E entry \in EntryIds :
          \E unload_ok \in async_unload_platforms(entry) :
             /\ LET h == async_unload_entry(Hass, entry, unload_ok)
                IN  /\ hass_data' = h.hass_data
                    /\ setups' = h.setups
                    /\ close_calls' = h.close_calls
             /\ unload_results' =
                   Append(unload_results,
                          [entry |-> entry, unload_ok |-> unload_ok])
             /\ entry_state' =
                   [entry_state EXCEPT ![entry] = IF unload_ok
                                                  THEN "NOT_LOADED"
                                                  ELSE "FAILED_UNLOAD"]
    /\ UNCHANGED <<ecomax, conn_callbacks, fan_vars, wizard_vars,
                   entity_vars, heater_vars, migrate_vars>>

(***************************************************************************)
(* Migration of a config entry (__init__.py).                              *)
(***************************************************************************)
\* An entry of the version the migration ends at.
CurrentEntry ==
    [version |-> 5,
     keys |-> {CONF_MODEL, CONF_PRODUCT_TYPE, CONF_SUB_DEVICES},
     model |-> ecoMAX_850P, product_type |-> 0, sub_devices |-> <<>>]

\* The entries of the versions 1 to 4: the product type is known from
\* version 3 on, the sub-devices from version 5 on.
OldEntries ==
    {[version |-> v,
      keys |-> {CONF_MODEL} \cup caps
               \cup (IF v >= 3 THEN {CONF_PRODUCT_TYPE} ELSE {}),
      model |-> m,
      product_type |-> IF v >= 3 THEN 0 ELSE NoNumber,
      sub_devices |-> <<>>] :
        v \in 1 .. 4, m \in ModelNames, caps \in {{}, {CONF_CAPABILITIES}}}

\* The block of async_migrate_entry for the versions 1 and 2.
migrate_1_2(entry, product_type) ==
    [entry EXCEPT !.keys = @ \cup {CONF_PRODUCT_TYPE},
                  !.product_type = product_type,
                  !.version = 3]

migrate_3_NoFormat(entry) == [entry EXCEPT !.version = 4]

\* The block of async_migrate_entry for version 3.
migrate_3(entry) ==
    [entry EXCEPT !.model = format_model_name(@), !.version = 4]

\* The block of async_migrate_entry for version 4.
migrate_4(entry, sub_devices) ==
    [entry EXCEPT !.keys = (@ \ {CONF_CAPABILITIES}) \cup {CONF_SUB_DEVICES},
                  !.sub_devices = sub_devices,
                  !.version = 5]

\* async_migrate_entry is called with the entry.
MigrateStart ==
    /\ migrate_pc = "idle"
    /\ migrate_pc' = "1_2"
    /\ migrate_start' = config_entry
    /\ UNCHANGED <<config_entry, responding, migrate_log, ecomax,
                   conn_callbacks, fan_vars, setup_vars, wizard_vars,
                   entity_vars, heater_vars>>

\* if config_entry.version in (1, 2): the product is awaited from the device,
\* a timeout ends the migration with False.
MigrateStep12 ==
    /\ migrate_pc = "1_2"
    /\ IF config_entry.version \in {1, 2}
       THEN IF responding
            THEN \E product_type \in ProductType :
                    /\ config_entry' = migrate_1_2(config_entry, product_type)
                    /\ migrate_log' = Append(migrate_log, config_entry'.version)
                    /\ migrate_pc' = "3"
            ELSE /\ migrate_pc' = "False"
                 /\ UNCHANGED <<config_entry, migrate_log>>
       ELSE /\ migrate_pc' = "3"
            /\ UNCHANGED <<config_entry, migrate_log>>
    /\ UNCHANGED <<responding, migrate_start, ecomax, conn_callbacks,
                   fan_vars, setup_vars, wizard_vars, entity_vars, heater_vars>>

\* if config_entry.version == 3
MigrateStep3 ==
    /\ migrate_pc = "3"
    /\ IF config_entry.version = 3
       THEN /\ config_entry' = migrate_3(config_entry)
            /\ migrate_log' = Append(migrate_log, config_entry'.version)
       ELSE UNCHANGED <<config_entry, migrate_log>>
    /\ migrate_pc' = "4"
    /\ UNCHANGED <<responding, migrate_start, ecomax, conn_callbacks,
                   fan_vars, setup_vars, wizard_vars, entity_vars, heater_vars>>

\* if config_entry.version == 4: the sub-devices are awaited from the device,
\* a timeout ends the migration with False; then True is returned.
MigrateStep4 ==
    /\ migrate_pc = "4"
    /\ IF config_entry.version = 4
       THEN IF responding
            THEN \E sub_devices \in {<<>>, <<"water_heater">>} :
                    /\ config_entry' = migrate_4(config_entry, sub_devices)
                    /\ migrate_log' = Append(migrate_log, config_entry'.version)
                    /\ migrate_pc' = "True"
            ELSE /\ migrate_pc' = "False"
                 /\ UNCHANGED <<config_entry, migrate_log>>
       ELSE /\ migrate_pc' = "True"
            /\ UNCHANGED <<config_entry, migrate_log>>
    /\ UNCHANGED <<responding, migrate_start, ecomax, conn_callbacks,
                   fan_vars, setup_vars, wizard_vars, entity_vars, heater_vars>>

(***************************************************************************)
(* The water heater (water_heater.py).                                     *)
(***************************************************************************)
\* What getattr(ecomax, name, None) gives for a parameter that is absent.
NoParameter == [value |-> NoNumber, min_ |-> NoNumber, max_ |-> NoNumber]

\* The ecomax's water_heater_set_temp, water_heater_hysteresis and
\* water_heater_temp.
DeviceAttrs ==
    [set_temp : {NoParameter} \cup
                {[value |-> v, min_ |-> 20, max_ |-> 60] : v \in {40, 45, 50}},
     hysteresis : {NoNumber, 5, 10},
     temp : {NoNumber, 40, 48}]

NoAttrs == [set_temp |-> NoParameter, hysteresis |-> NoNumber,
            temp |-> NoNumber]

\* EcomaxWaterHeater.__init__
NewHeater ==
    [min_temp |-> NoNumber, max_temp |-> NoNumber,
     target_temperature |-> NoNumber,
     target_temperature_high |-> NoNumber,
     target_temperature_low |-> NoNumber,
     current_temperature |-> NoNumber]

\* getattr(self._connection.ecomax, name, None)
getattr(e, attrs, name) ==
    IF e = "None" THEN (IF name = "set_temp" THEN NoParameter ELSE NoNumber)
    ELSE attrs[name]

\* EcomaxWaterHeater.async_update
EcomaxWaterHeater_async_update(h, e, attrs) ==
    LET target_temp == getattr(e, attrs, "set_temp")
        hysteresis == getattr(e, attrs, "hysteresis")
        h1 == IF target_temp = NoParameter
              THEN [h EXCEPT !.min_temp = NoNumber,
                             !.max_temp = NoNumber,
                             !.target_temperature = NoNumber,
                             !.target_temperature_high = NoNumber]
              ELSE [h EXCEPT !.min_temp = target_temp.min_,
                             !.max_temp = target_temp.max_,
                             !.target_temperature = target_temp.value,
                             !.target_temperature_high = target_temp.value,
                             !.target_temperature_low =
                                IF hysteresis = NoNumber
                                THEN target_temp.value
                                ELSE target_temp.value - hysteresis]
    IN  [h1 EXCEPT !.current_temperature = getattr(e, attrs, "temp")]

\* EcomaxConnection.update_entities with data of the ecomax, the water
\* heater's async_update being the callback.
HeaterUpdateEntities ==
    /\ \E attrs \in DeviceAttrs :
          /\ device_attrs' = attrs
          /\ heater' = EcomaxWaterHeater_async_update(heater, "device", attrs)
    /\ ecomax' = "device"
    /\ UNCHANGED <<conn_callbacks, fan_vars, setup_vars, migrate_vars,
                   wizard_vars, entity_vars>>

\* EcomaxConnection.connection_closed, the water heater's async_update being
\* the callback.
HeaterConnectionClosed ==
    /\ ecomax' = "None"
    /\ heater' = EcomaxWaterHeater_async_update(heater, "None", device_attrs)
    /\ UNCHANGED <<device_attrs, conn_callbacks, fan_vars, setup_vars,
                   migrate_vars, wizard_vars, entity_vars>>

(***************************************************************************)
(* Entity actions.                                                         *)
(***************************************************************************)
\* The entity is added to hass.
Attach ==
    /\ ~attached /\ gen < MaxAttach
    /\ attached' = TRUE
    /\ gen' = gen + 1
    /\ present_at_attach' =
          [present_at_attach EXCEPT ![gen + 1] = data # "NoValue"]
    /\ attached_at' = [attached_at EXCEPT ![gen + 1] = dispatches]
    /\ \E last_sensor_data \in LastSensorData :
          IF key = "fuel_burned"
          THEN /\ SetEntity(EcomaxMeter_async_added_to_hass(
                               Entity, gen + 1, last_sensor_data))
               /\ restored' = last_sensor_data
          ELSE /\ SetEntity(async_added_to_hass(Entity, gen + 1))
               /\ restored' = restored
    /\ UNCHANGED <<data, dispatches, avail_vars, key, now, writes,
                   dispatch_vars,
                   wizard_vars, component_vars, commands, attach_pc>>

\* EcomaxMeter.async_added_to_hass up to its await of the last sensor data:
\* the base attach has subscribed the meter to its key.
MeterAttachBegin ==
    /\ ~attached /\ gen < MaxAttach /\ attach_pc = "idle"
    /\ key = "fuel_burned"
    /\ attached' = TRUE
    /\ gen' = gen + 1
    /\ present_at_attach' =
          [present_at_attach EXCEPT ![gen + 1] = data # "NoValue"]
    /\ attached_at' = [attached_at EXCEPT ![gen + 1] = dispatches]
    /\ SetEntity(async_added_to_hass(Entity, gen + 1))
    /\ attach_pc' = "restore"
    /\ UNCHANGED <<data, dispatches, avail_vars, key, now, restored, writes,
                   dispatch_vars, wizard_vars, component_vars, commands>>

\* EcomaxMeter.async_added_to_hass after its await: the stored value is
\* assigned from the last sensor data, or 0.0 when there is none.
MeterAttachRestore ==
    /\ attach_pc = "restore"
    /\ \E last_sensor_data \in LastSensorData :
          /\ meter_value' = IF last_sensor_data # NoNumber
                            THEN last_sensor_data
                            ELSE 0
          /\ restored' = last_sensor_data
    /\ attach_pc' = "idle"
    /\ UNCHANGED <<data, callbacks, attached, gen, attr_available,
                   native_value, last_value, set_available_calls,
                   present_at_attach, attached_at, dispatches, avail_vars,
                   fed, forwarded, key, now, last_called, fed_at,
                   forwarded_at, sum, last_update, is_on, writes,
                   dispatch_vars, last_reset, commands, wizard_vars,
                   component_vars>>

\* The entity is removed from hass.
Detach ==
    /\ attached
    /\ attached' = FALSE
    /\ SetEntity(async_will_remove_from_hass(Entity))
    /\ UNCHANGED <<data, gen, present_at_attach, attached_at, dispatches,
                   avail_vars, key, now, restored, writes, dispatch_vars,
                   wizard_vars, component_vars, commands, attach_pc>>

\* The device reports a value for the key.
Dispatch ==
    /\ dispatches < MaxDispatch
    /\ \E value \in KeyValues :
          /\ SetEntity(dispatch(Entity, callbacks, value))
          /\ data' = value
    /\ dispatches' = dispatches + 1
    /\ UNCHANGED <<attached, gen, present_at_attach, attached_at, avail_vars,
                   key, now, restored, writes, dispatch_vars,
                   wizard_vars, component_vars, commands, attach_pc>>

\* device.dispatch(key, value) begins: the list of the key's callbacks is
\* copied.
DispatchBegin ==
    /\ pending_value = "NoValue" /\ dispatches < MaxDispatch
    /\ \E value \in KeyValues : pending_value' = value
    /\ pending' = callbacks
    /\ dispatches' = dispatches + 1
    /\ UNCHANGED <<data, attached, gen, present_at_attach, attached_at,
                   avail_vars, entity_state, key, now, restored, writes,
                   wizard_vars, component_vars, commands, attach_pc>>

\* The dispatch in progress awaits the next callback of its copy.
DispatchCallback ==
    /\ pending_value # "NoValue" /\ pending # <<>>
    /\ SetEntity(invoke(Entity, Head(pending), pending_value))
    /\ pending' = Tail(pending)
    /\ UNCHANGED <<data, attached, gen, present_at_attach, attached_at,
                   dispatches, avail_vars, key, now, restored, writes,
                   pending_value, wizard_vars, component_vars, commands, attach_pc>>

\* The dispatch in progress has called every callback of its copy: the value
\* is stored in device.data.
DispatchEnd ==
    /\ pending_value # "NoValue" /\ pending = <<>>
    /\ data' = pending_value
    /\ pending_value' = "NoValue"
    /\ UNCHANGED <<attached, gen, present_at_attach, attached_at, dispatches,
                   avail_vars, entity_state, key, now, restored, writes,
                   pending, wizard_vars, component_vars, commands, attach_pc>>

\* The user turns the switch on.
TurnOn ==
    /\ attached /\ Len(writes) < MaxWrites
    /\ writes' = Append(writes, STATE_ON)
    /\ SetEntity(async_turn_on(Entity))
    /\ UNCHANGED <<data, attached, gen, present_at_attach, attached_at,
                   dispatches, avail_vars, key, now, restored, dispatch_vars,
                   wizard_vars, component_vars, commands, attach_pc>>

\* The user turns the switch off.
TurnOff ==
    /\ attached /\ Len(writes) < MaxWrites
    /\ writes' = Append(writes, STATE_OFF)
    /\ SetEntity(async_turn_off(Entity))
    /\ UNCHANGED <<data, attached, gen, present_at_attach, attached_at,
                   dispatches, avail_vars, key, now, restored, dispatch_vars,
                   wizard_vars, component_vars, commands, attach_pc>>

\* The service that calibrates the meter is called.
CalibrateMeter ==
    /\ attached /\ Len(commands) < MaxCommands
    /\ \E value \in {500} :
          /\ SetEntity(async_calibrate_meter(Entity, value))
          /\ commands' = Append(commands, [cmd |-> "calibrate",
                                           value |-> value])
    /\ UNCHANGED <<data, attached, gen, present_at_attach, attached_at,
                   dispatches, avail_vars, key, now, restored, writes,
                   dispatch_vars, wizard_vars, component_vars, attach_pc>>

\* The service that resets the meter is called.
ResetMeter ==
    /\ attached /\ Len(commands) < MaxCommands
    /\ SetEntity(async_reset_meter(Entity))
    /\ commands' = Append(commands, [cmd |-> "reset", value |-> 0])
    /\ UNCHANGED <<data, attached, gen, present_at_attach, attached_at,
                   dispatches, avail_vars, key, now, restored, writes,
                   dispatch_vars, wizard_vars, component_vars, attach_pc>>

\* Time passes.
Tick ==
    /\ \E d \in {2, 8} :
          /\ now + d <= MaxTime
          /\ now' = now + d
    /\ UNCHANGED <<data, attached, gen, present_at_attach, attached_at,
                   dispatches, avail_vars, entity_state, key, restored,
                   writes, dispatch_vars,
                   wizard_vars, component_vars, commands, attach_pc>>

\* The device's value may change until MaxTime; the clock runs on for two
\* more throttle periods.
MaxLiveTime == MaxTime + 2 * THROTTLE_SECONDS

\* Time passes, half a throttle period at a time.
LiveTick ==
    /\ \E d \in {5} :
          /\ now + d <= MaxLiveTime
          /\ now' = now + d
    /\ UNCHANGED <<data, attached, gen, present_at_attach, attached_at,
                   dispatches, avail_vars, entity_state, key, restored,
                   writes, dispatch_vars,
                   wizard_vars, component_vars, commands, attach_pc>>

\* The device reports a value for the key while its value still changes.
SettlingDispatch ==
    /\ now <= MaxTime
    /\ Dispatch

\* The device's periodic message: it reports the value it holds once more,
\* at most once at any time of the clock.
PeriodicDispatch ==
    /\ attached /\ data # "NoValue"
    /\ fed_at[gen] = <<>> \/ fed_at[gen][Len(fed_at[gen])] < now
    /\ SetEntity(dispatch(Entity, callbacks, data))
    /\ UNCHANGED <<data, attached, gen, present_at_attach, attached_at,
                   dispatches, avail_vars, key, now, restored, writes,
                   dispatch_vars, wizard_vars, component_vars, commands, attach_pc>>

\* Time passes, at the scale of the meter's window.
MeterTick ==
    /\ \E d \in {15, 30} :
          /\ now + d <= MaxMeterTime
          /\ now' = now + d
    /\ UNCHANGED <<data, attached, gen, present_at_attach, attached_at,
                   dispatches, avail_vars, entity_state, key, restored,
                   writes, dispatch_vars,
                   wizard_vars, component_vars, commands, attach_pc>>

\* The connection to the device is established.
ConnectionMade ==
    /\ ~connected
    /\ connected' = TRUE
    /\ UNCHANGED <<data, attached, gen, present_at_attach, attached_at,
                   dispatches, platform, always_available, entity_state,
                   key, now, restored, writes, dispatch_vars,
                   wizard_vars, component_vars, commands, attach_pc>>

\* The connection to the device is lost.
ConnectionLost ==
    /\ connected
    /\ connected' = FALSE
    /\ UNCHANGED <<data, attached, gen, present_at_attach, attached_at,
                   dispatches, platform, always_available, entity_state,
                   key, now, restored, writes, dispatch_vars,
                   wizard_vars, component_vars, commands, attach_pc>>

(***************************************************************************)
(* Specifications.                                                         *)
(***************************************************************************)
\* A new flow, for any device and any set of entries configured before; the
\* entity is not constructed.
WizardInit ==
    /\ connection = "None" /\ device = "None"
    /\ identify_task = 0 /\ discover_task = 0
    /\ init_info = <<>>
    /\ tasks = <<>> /\ conn_open = FALSE /\ unique_id = "None"
    /\ cur_step = "None" /\ flow_status = "none" /\ progress_task = 0
    /\ result = NoResult /\ reported = <<>> /\ entries = {}
    /\ connect_outcome = "None" /\ submits = 0
    /\ configured \in {{}, {"TEST"}, {"OTHER"}}
    /\ dev \in Devices
    /\ data = "NoValue" /\ callbacks = <<>> /\ attached = FALSE /\ gen = 0
    /\ attr_available = FALSE /\ native_value = "Unknown"
    /\ last_value = [g \in Gens |-> "NoValue"]
    /\ set_available_calls = [g \in Gens |-> 0]
    /\ fed = [g \in Gens |-> <<>>]
    /\ forwarded = [g \in Gens |-> <<>>]
    /\ now = 0 /\ last_called = [g \in Gens |-> NoTime]
    /\ fed_at = [g \in Gens |-> <<>>]
    /\ forwarded_at = [g \in Gens |-> <<>>]
    /\ sum = [g \in Gens |-> 0] /\ last_update = [g \in Gens |-> 0]
    /\ meter_value = NoNumber /\ restored = NoNumber
    /\ last_reset = NoTime /\ commands = <<>> /\ attach_pc = "idle"
    /\ is_on = "None" /\ writes = <<>>
    /\ pending = <<>> /\ pending_value = "NoValue"
    /\ ecomax = "None" /\ conn_callbacks = {}
    /\ heater = NewHeater /\ device_attrs = NoAttrs
    /\ fan_state = "idle" /\ fan_iter = <<>> /\ fan_used = 0
    /\ fan_invoked = {} /\ fan_start = {}
    /\ entry_state = [en \in EntryIds |-> "NOT_LOADED"]
    /\ hass_data = {} /\ setups = <<>>
    /\ close_calls = [c \in 1 .. MaxSetups |-> 0] /\ unload_results = <<>>
    /\ config_entry = CurrentEntry /\ responding = TRUE
    /\ migrate_pc = "idle" /\ migrate_log = <<>>
    /\ migrate_start = CurrentEntry
    /\ present_at_attach = [g \in Gens |-> FALSE]
    /\ attached_at = [g \in Gens |-> 0]
    /\ dispatches = 0
    /\ connected = FALSE /\ platform = "sensor" /\ always_available = FALSE
    /\ key = "heating_target"

\* A new flow, for a device of a known or an unknown product type, new or
\* configured before.
WizardLiveInit ==
    /\ connection = "None" /\ device = "None"
    /\ identify_task = 0 /\ discover_task = 0
    /\ init_info = <<>>
    /\ tasks = <<>> /\ conn_open = FALSE /\ unique_id = "None"
    /\ cur_step = "None" /\ flow_status = "none" /\ progress_task = 0
    /\ result = NoResult /\ reported = <<>> /\ entries = {}
    /\ connect_outcome = "None" /\ submits = 0
    /\ configured \in {{}, {"TEST"}}
    /\ dev \in {d \in Devices : /\ d.product.uid = "TEST"
                                /\ d.product.model = EM850P
                                /\ d.sub_devices = <<>>}
    /\ data = "NoValue" /\ callbacks = <<>> /\ attached = FALSE /\ gen = 0
    /\ attr_available = FALSE /\ native_value = "Unknown"
    /\ last_value = [g \in Gens |-> "NoValue"]
    /\ set_available_calls = [g \in Gens |-> 0]
    /\ fed = [g \in Gens |-> <<>>]
    /\ forwarded = [g \in Gens |-> <<>>]
    /\ now = 0 /\ last_called = [g \in Gens |-> NoTime]
    /\ fed_at = [g \in Gens |-> <<>>]
    /\ forwarded_at = [g \in Gens |-> <<>>]
    /\ sum = [g \in Gens |-> 0] /\ last_update = [g \in Gens |-> 0]
    /\ meter_value = NoNumber /\ restored = NoNumber
    /\ last_reset = NoTime /\ commands = <<>> /\ attach_pc = "idle"
    /\ is_on = "None" /\ writes = <<>>
    /\ pending = <<>> /\ pending_value = "NoValue"
    /\ ecomax = "None" /\ conn_callbacks = {}
    /\ heater = NewHeater /\ device_attrs = NoAttrs
    /\ fan_state = "idle" /\ fan_iter = <<>> /\ fan_used = 0
    /\ fan_invoked = {} /\ fan_start = {}
    /\ entry_state = [en \in EntryIds |-> "NOT_LOADED"]
    /\ hass_data = {} /\ setups = <<>>
    /\ close_calls = [c \in 1 .. MaxSetups |-> 0] /\ unload_results = <<>>
    /\ config_entry = CurrentEntry /\ responding = TRUE
    /\ migrate_pc = "idle" /\ migrate_log = <<>>
    /\ migrate_start = CurrentEntry
    /\ present_at_attach = [g \in Gens |-> FALSE]
    /\ attached_at = [g \in Gens |-> 0]
    /\ dispatches = 0
    /\ connected = FALSE /\ platform = "sensor" /\ always_available = FALSE
    /\ key = "heating_target"

\* A constructed entity of either class, with or without always_available,
\* on a device object that holds no value yet and on whose key another
\* entity may be subscribed; the connection is not established; no flow.
EntityInit ==
    /\ connection = "None" /\ device = "None"
    /\ identify_task = 0 /\ discover_task = 0
    /\ init_info = <<>>
    /\ tasks = <<>> /\ conn_open = FALSE /\ unique_id = "None"
    /\ cur_step = "None" /\ flow_status = "none" /\ progress_task = 0
    /\ result = NoResult /\ reported = <<>> /\ entries = {}
    /\ connect_outcome = "None" /\ submits = 0
    /\ configured = {}
    /\ dev = [product |-> [uid |-> "TEST", model |-> EM850P, type |-> 0,
                           id |-> 4],
              modules |-> [module_a |-> "6.10.32.K1"],
              sub_devices |-> <<>>]
    /\ data = "NoValue" /\ attached = FALSE /\ gen = 0
    /\ callbacks \in {<<>>, <<OtherFunc>>}
    /\ platform \in Platforms /\ always_available \in BOOLEAN
    /\ connected = FALSE
    /\ key = "heating_target"
    /\ attr_available = _attr_available_default(platform)
    /\ native_value = "Unknown"
    /\ last_value = [g \in Gens |-> "NoValue"]
    /\ set_available_calls = [g \in Gens |-> 0]
    /\ fed = [g \in Gens |-> <<>>]
    /\ forwarded = [g \in Gens |-> <<>>]
    /\ now = 0 /\ last_called = [g \in Gens |-> NoTime]
    /\ fed_at = [g \in Gens |-> <<>>]
    /\ forwarded_at = [g \in Gens |-> <<>>]
    /\ sum = [g \in Gens |-> 0] /\ last_update = [g \in Gens |-> 0]
    /\ meter_value = NoNumber /\ restored = NoNumber
    /\ last_reset = NoTime /\ commands = <<>> /\ attach_pc = "idle"
    /\ is_on = "None" /\ writes = <<>>
    /\ pending = <<>> /\ pending_value = "NoValue"
    /\ ecomax = "None" /\ conn_callbacks = {}
    /\ heater = NewHeater /\ device_attrs = NoAttrs
    /\ fan_state = "idle" /\ fan_iter = <<>> /\ fan_used = 0
    /\ fan_invoked = {} /\ fan_start = {}
    /\ entry_state = [en \in EntryIds |-> "NOT_LOADED"]
    /\ hass_data = {} /\ setups = <<>>
    /\ close_calls = [c \in 1 .. MaxSetups |-> 0] /\ unload_results = <<>>
    /\ config_entry = CurrentEntry /\ responding = TRUE
    /\ migrate_pc = "idle" /\ migrate_log = <<>>
    /\ migrate_start = CurrentEntry
    /\ present_at_attach = [g \in Gens |-> FALSE]
    /\ attached_at = [g \in Gens |-> 0]
    /\ dispatches = 0

WizardNext ==
    \/ FlowInit
    \/ MenuSelect
    \/ SubmitTcp
    \/ SubmitSerial
    \/ Poll
    \/ IdentifyTaskStep
    \/ DiscoverTaskStep
    \/ Abandon

\* A constructed sensor of the heating_temp description on a device object
\* that holds no value yet; no flow.
ThrottleInit ==
    /\ connection = "None" /\ device = "None"
    /\ identify_task = 0 /\ discover_task = 0
    /\ init_info = <<>>
    /\ tasks = <<>> /\ conn_open = FALSE /\ unique_id = "None"
    /\ cur_step = "None" /\ flow_status = "none" /\ progress_task = 0
    /\ result = NoResult /\ reported = <<>> /\ entries = {}
    /\ connect_outcome = "None" /\ submits = 0
    /\ configured = {}
    /\ dev = [product |-> [uid |-> "TEST", model |-> EM850P, type |-> 0,
                           id |-> 4],
              modules |-> [module_a |-> "6.10.32.K1"],
              sub_devices |-> <<>>]
    /\ data = "NoValue" /\ callbacks = <<>> /\ attached = FALSE /\ gen = 0
    /\ platform = "sensor" /\ always_available = FALSE
    /\ connected = TRUE
    /\ key = "heating_temp"
    /\ attr_available = FALSE
    /\ native_value = "Unknown"
    /\ last_value = [g \in Gens |-> "NoValue"]
    /\ set_available_calls = [g \in Gens |-> 0]
    /\ fed = [g \in Gens |-> <<>>]
    /\ forwarded = [g \in Gens |-> <<>>]
    /\ now = 0 /\ last_called = [g \in Gens |-> NoTime]
    /\ fed_at = [g \in Gens |-> <<>>]
    /\ forwarded_at = [g \in Gens |-> <<>>]
    /\ sum = [g \in Gens |-> 0] /\ last_update = [g \in Gens |-> 0]
    /\ meter_value = NoNumber /\ restored = NoNumber
    /\ last_reset = NoTime /\ commands = <<>> /\ attach_pc = "idle"
    /\ is_on = "None" /\ writes = <<>>
    /\ pending = <<>> /\ pending_value = "NoValue"
    /\ ecomax = "None" /\ conn_callbacks = {}
    /\ heater = NewHeater /\ device_attrs = NoAttrs
    /\ fan_state = "idle" /\ fan_iter = <<>> /\ fan_used = 0
    /\ fan_invoked = {} /\ fan_start = {}
    /\ entry_state = [en \in EntryIds |-> "NOT_LOADED"]
    /\ hass_data = {} /\ setups = <<>>
    /\ close_calls = [c \in 1 .. MaxSetups |-> 0] /\ unload_results = <<>>
    /\ config_entry = CurrentEntry /\ responding = TRUE
    /\ migrate_pc = "idle" /\ migrate_log = <<>>
    /\ migrate_start = CurrentEntry
    /\ present_at_attach = [g \in Gens |-> FALSE]
    /\ attached_at = [g \in Gens |-> 0]
    /\ dispatches = 0

ThrottleNext ==
    \/ Attach
    \/ Dispatch
    \/ Tick

\* The heating_temp sensor added to hass on a device object that holds no
\* value yet; no flow.
ThrottleLiveInit ==
    /\ connection = "None" /\ device = "None"
    /\ identify_task = 0 /\ discover_task = 0
    /\ init_info = <<>>
    /\ tasks = <<>> /\ conn_open = FALSE /\ unique_id = "None"
    /\ cur_step = "None" /\ flow_status = "none" /\ progress_task = 0
    /\ result = NoResult /\ reported = <<>> /\ entries = {}
    /\ connect_outcome = "None" /\ submits = 0
    /\ configured = {}
    /\ dev = [product |-> [uid |-> "TEST", model |-> EM850P, type |-> 0,
                           id |-> 4],
              modules |-> [module_a |-> "6.10.32.K1"],
              sub_devices |-> <<>>]
    /\ data = "NoValue" /\ attached = TRUE /\ gen = 1
    /\ callbacks = <<[kind |-> "once", gen |-> 1, owner |-> "self"], Func(1)>>
    /\ platform = "sensor" /\ always_available = FALSE
    /\ connected = TRUE
    /\ key = "heating_temp"
    /\ attr_available = FALSE
    /\ native_value = "Unknown"
    /\ last_value = [g \in Gens |-> "NoValue"]
    /\ set_available_calls = [g \in Gens |-> 0]
    /\ fed = [g \in Gens |-> <<>>]
    /\ forwarded = [g \in Gens |-> <<>>]
    /\ now = 0 /\ last_called = [g \in Gens |-> NoTime]
    /\ fed_at = [g \in Gens |-> <<>>]
    /\ forwarded_at = [g \in Gens |-> <<>>]
    /\ sum = [g \in Gens |-> 0] /\ last_update = [g \in Gens |-> 0]
    /\ meter_value = NoNumber /\ restored = NoNumber
    /\ last_reset = NoTime /\ commands = <<>> /\ attach_pc = "idle"
    /\ is_on = "None" /\ writes = <<>>
    /\ pending = <<>> /\ pending_value = "NoValue"
    /\ ecomax = "None" /\ conn_callbacks = {}
    /\ heater = NewHeater /\ device_attrs = NoAttrs
    /\ fan_state = "idle" /\ fan_iter = <<>> /\ fan_used = 0
    /\ fan_invoked = {} /\ fan_start = {}
    /\ entry_state = [en \in EntryIds |-> "NOT_LOADED"]
    /\ hass_data = {} /\ setups = <<>>
    /\ close_calls = [c \in 1 .. MaxSetups |-> 0] /\ unload_results = <<>>
    /\ config_entry = CurrentEntry /\ responding = TRUE
    /\ migrate_pc = "idle" /\ migrate_log = <<>>
    /\ migrate_start = CurrentEntry
    /\ present_at_attach = [g \in Gens |-> FALSE]
    /\ attached_at = [g \in Gens |-> 0]
    /\ dispatches = 0

ThrottleLiveNext ==
    \/ SettlingDispatch
    \/ PeriodicDispatch
    \/ LiveTick

\* A constructed water heater on a connection without a device object; no
\* flow.
HeaterInit ==
    /\ connection = "None" /\ device = "None"
    /\ identify_task = 0 /\ discover_task = 0
    /\ init_info = <<>>
    /\ tasks = <<>> /\ conn_open = FALSE /\ unique_id = "None"
    /\ cur_step = "None" /\ flow_status = "none" /\ progress_task = 0
    /\ result = NoResult /\ reported = <<>> /\ entries = {}
    /\ connect_outcome = "None" /\ submits = 0
    /\ configured = {}
    /\ dev = [product |-> [uid |-> "TEST", model |-> EM850P, type |-> 0,
                           id |-> 4],
              modules |-> [module_a |-> "6.10.32.K1"],
              sub_devices |-> <<>>]
    /\ data = "NoValue" /\ callbacks = <<>> /\ attached = FALSE /\ gen = 0
    /\ platform = "sensor" /\ always_available = FALSE
    /\ connected = TRUE
    /\ key = "heating_temp"
    /\ attr_available = FALSE
    /\ native_value = "Unknown"
    /\ last_value = [g \in Gens |-> "NoValue"]
    /\ set_available_calls = [g \in Gens |-> 0]
    /\ fed = [g \in Gens |-> <<>>]
    /\ forwarded = [g \in Gens |-> <<>>]
    /\ now = 0 /\ last_called = [g \in Gens |-> NoTime]
    /\ fed_at = [g \in Gens |-> <<>>]
    /\ forwarded_at = [g \in Gens |-> <<>>]
    /\ sum = [g \in Gens |-> 0] /\ last_update = [g \in Gens |-> 0]
    /\ meter_value = NoNumber /\ restored = NoNumber
    /\ last_reset = NoTime /\ commands = <<>> /\ attach_pc = "idle"
    /\ is_on = "None" /\ writes = <<>>
    /\ pending = <<>> /\ pending_value = "NoValue"
    /\ ecomax = "None" /\ conn_callbacks = {}
    /\ heater = NewHeater /\ device_attrs = NoAttrs
    /\ fan_state = "idle" /\ fan_iter = <<>> /\ fan_used = 0
    /\ fan_invoked = {} /\ fan_start = {}
    /\ entry_state = [en \in EntryIds |-> "NOT_LOADED"]
    /\ hass_data = {} /\ setups = <<>>
    /\ close_calls = [c \in 1 .. MaxSetups |-> 0] /\ unload_results = <<>>
    /\ config_entry = CurrentEntry /\ responding = TRUE
    /\ migrate_pc = "idle" /\ migrate_log = <<>>
    /\ migrate_start = CurrentEntry
    /\ present_at_attach = [g \in Gens |-> FALSE]
    /\ attached_at = [g \in Gens |-> 0]
    /\ dispatches = 0

HeaterNext ==
    \/ HeaterUpdateEntities
    \/ HeaterConnectionClosed

\* A constructed meter on a device object that holds no value yet; no flow.
MeterInit ==
    /\ connection = "None" /\ device = "None"
    /\ identify_task = 0 /\ discover_task = 0
    /\ init_info = <<>>
    /\ tasks = <<>> /\ conn_open = FALSE /\ unique_id = "None"
    /\ cur_step = "None" /\ flow_status = "none" /\ progress_task = 0
    /\ result = NoResult /\ reported = <<>> /\ entries = {}
    /\ connect_outcome = "None" /\ submits = 0
    /\ configured = {}
    /\ dev = [product |-> [uid |-> "TEST", model |-> EM850P, type |-> 0,
                           id |-> 4],
              modules |-> [module_a |-> "6.10.32.K1"],
              sub_devices |-> <<>>]
    /\ data = "NoValue" /\ callbacks = <<>> /\ attached = FALSE /\ gen = 0
    /\ platform = "sensor" /\ always_available = TRUE
    /\ connected = TRUE
    /\ key = "fuel_burned"
    /\ attr_available = FALSE
    /\ native_value = "Unknown"
    /\ last_value = [g \in Gens |-> "NoValue"]
    /\ set_available_calls = [g \in Gens |-> 0]
    /\ fed = [g \in Gens |-> <<>>]
    /\ forwarded = [g \in Gens |-> <<>>]
    /\ now = 0 /\ last_called = [g \in Gens |-> NoTime]
    /\ fed_at = [g \in Gens |-> <<>>]
    /\ forwarded_at = [g \in Gens |-> <<>>]
    /\ sum = [g \in Gens |-> 0] /\ last_update = [g \in Gens |-> 0]
    /\ meter_value = NoNumber /\ restored = NoNumber
    /\ last_reset = NoTime /\ commands = <<>> /\ attach_pc = "idle"
    /\ is_on = "None" /\ writes = <<>>
    /\ pending = <<>> /\ pending_value = "NoValue"
    /\ ecomax = "None" /\ conn_callbacks = {}
    /\ heater = NewHeater /\ device_attrs = NoAttrs
    /\ fan_state = "idle" /\ fan_iter = <<>> /\ fan_used = 0
    /\ fan_invoked = {} /\ fan_start = {}
    /\ entry_state = [en \in EntryIds |-> "NOT_LOADED"]
    /\ hass_data = {} /\ setups = <<>>
    /\ close_calls = [c \in 1 .. MaxSetups |-> 0] /\ unload_results = <<>>
    /\ config_entry = CurrentEntry /\ responding = TRUE
    /\ migrate_pc = "idle" /\ migrate_log = <<>>
    /\ migrate_start = CurrentEntry
    /\ present_at_attach = [g \in Gens |-> FALSE]
    /\ attached_at = [g \in Gens |-> 0]
    /\ dispatches = 0

MeterNext ==
    \/ Attach
    \/ Dispatch
    \/ MeterTick

\* A constructed switch on a device object that holds no value yet; no flow.
SwitchInit ==
    /\ connection = "None" /\ device = "None"
    /\ identify_task = 0 /\ discover_task = 0
    /\ init_info = <<>>
    /\ tasks = <<>> /\ conn_open = FALSE /\ unique_id = "None"
    /\ cur_step = "None" /\ flow_status = "none" /\ progress_task = 0
    /\ result = NoResult /\ reported = <<>> /\ entries = {}
    /\ connect_outcome = "None" /\ submits = 0
    /\ configured = {}
    /\ dev = [product |-> [uid |-> "TEST", model |-> EM850P, type |-> 0,
                           id |-> 4],
              modules |-> [module_a |-> "6.10.32.K1"],
              sub_devices |-> <<>>]
    /\ data = "NoValue" /\ callbacks = <<>> /\ attached = FALSE /\ gen = 0
    /\ platform = "switch" /\ always_available = FALSE
    /\ connected = TRUE
    /\ key = "ecomax_control"
    /\ attr_available = FALSE
    /\ native_value = "Unknown"
    /\ last_value = [g \in Gens |-> "NoValue"]
    /\ set_available_calls = [g \in Gens |-> 0]
    /\ fed = [g \in Gens |-> <<>>]
    /\ forwarded = [g \in Gens |-> <<>>]
    /\ now = 0 /\ last_called = [g \in Gens |-> NoTime]
    /\ fed_at = [g \in Gens |-> <<>>]
    /\ forwarded_at = [g \in Gens |-> <<>>]
    /\ sum = [g \in Gens |-> 0] /\ last_update = [g \in Gens |-> 0]
    /\ meter_value = NoNumber /\ restored = NoNumber
    /\ last_reset = NoTime /\ commands = <<>> /\ attach_pc = "idle"
    /\ is_on = "None" /\ writes = <<>>
    /\ pending = <<>> /\ pending_value = "NoValue"
    /\ ecomax = "None" /\ conn_callbacks = {}
    /\ heater = NewHeater /\ device_attrs = NoAttrs
    /\ fan_state = "idle" /\ fan_iter = <<>> /\ fan_used = 0
    /\ fan_invoked = {} /\ fan_start = {}
    /\ entry_state = [en \in EntryIds |-> "NOT_LOADED"]
    /\ hass_data = {} /\ setups = <<>>
    /\ close_calls = [c \in 1 .. MaxSetups |-> 0] /\ unload_results = <<>>
    /\ config_entry = CurrentEntry /\ responding = TRUE
    /\ migrate_pc = "idle" /\ migrate_log = <<>>
    /\ migrate_start = CurrentEntry
    /\ present_at_attach = [g \in Gens |-> FALSE]
    /\ attached_at = [g \in Gens |-> 0]
    /\ dispatches = 0

SwitchNext ==
    \/ Attach
    \/ Detach
    \/ Dispatch
    \/ TurnOn
    \/ TurnOff

\* The entity of EntityInit, with the device's dispatch followed callback by
\* callback.
RegistryInit ==
    /\ connection = "None" /\ device = "None"
    /\ identify_task = 0 /\ discover_task = 0
    /\ init_info = <<>>
    /\ tasks = <<>> /\ conn_open = FALSE /\ unique_id = "None"
    /\ cur_step = "None" /\ flow_status = "none" /\ progress_task = 0
    /\ result = NoResult /\ reported = <<>> /\ entries = {}
    /\ connect_outcome = "None" /\ submits = 0
    /\ configured = {}
    /\ dev = [product |-> [uid |-> "TEST", model |-> EM850P, type |-> 0,
                           id |-> 4],
              modules |-> [module_a |-> "6.10.32.K1"],
              sub_devices |-> <<>>]
    /\ data = "NoValue" /\ attached = FALSE /\ gen = 0
    /\ callbacks \in {<<>>, <<OtherFunc>>}
    /\ platform \in Platforms /\ always_available \in BOOLEAN
    /\ connected = FALSE
    /\ key = "heating_target"
    /\ attr_available = _attr_available_default(platform)
    /\ native_value = "Unknown"
    /\ last_value = [g \in Gens |-> "NoValue"]
    /\ set_available_calls = [g \in Gens |-> 0]
    /\ fed = [g \in Gens |-> <<>>]
    /\ forwarded = [g \in Gens |-> <<>>]
    /\ now = 0 /\ last_called = [g \in Gens |-> NoTime]
    /\ fed_at = [g \in Gens |-> <<>>]
    /\ forwarded_at = [g \in Gens |-> <<>>]
    /\ sum = [g \in Gens |-> 0] /\ last_update = [g \in Gens |-> 0]
    /\ meter_value = NoNumber /\ restored = NoNumber
    /\ last_reset = NoTime /\ commands = <<>> /\ attach_pc = "idle"
    /\ is_on = "None" /\ writes = <<>>
    /\ pending = <<>> /\ pending_value = "NoValue"
    /\ ecomax = "None" /\ conn_callbacks = {}
    /\ heater = NewHeater /\ device_attrs = NoAttrs
    /\ fan_state = "idle" /\ fan_iter = <<>> /\ fan_used = 0
    /\ fan_invoked = {} /\ fan_start = {}
    /\ entry_state = [en \in EntryIds |-> "NOT_LOADED"]
    /\ hass_data = {} /\ setups = <<>>
    /\ close_calls = [c \in 1 .. MaxSetups |-> 0] /\ unload_results = <<>>
    /\ config_entry = CurrentEntry /\ responding = TRUE
    /\ migrate_pc = "idle" /\ migrate_log = <<>>
    /\ migrate_start = CurrentEntry
    /\ present_at_attach = [g \in Gens |-> FALSE]
    /\ attached_at = [g \in Gens |-> 0]
    /\ dispatches = 0

RegistryNext ==
    \/ Attach
    \/ Detach
    \/ DispatchBegin
    \/ DispatchCallback
    \/ DispatchEnd

\* A constructed connection: no device, no callbacks; no flow, no entity.
ConnectionInit ==
    /\ connection = "None" /\ device = "None"
    /\ identify_task = 0 /\ discover_task = 0
    /\ init_info = <<>>
    /\ tasks = <<>> /\ conn_open = FALSE /\ unique_id = "None"
    /\ cur_step = "None" /\ flow_status = "none" /\ progress_task = 0
    /\ result = NoResult /\ reported = <<>> /\ entries = {}
    /\ connect_outcome = "None" /\ submits = 0
    /\ configured = {}
    /\ dev = [product |-> [uid |-> "TEST", model |-> EM850P, type |-> 0,
                           id |-> 4],
              modules |-> [module_a |-> "6.10.32.K1"],
              sub_devices |-> <<>>]
    /\ data = "NoValue" /\ callbacks = <<>> /\ attached = FALSE /\ gen = 0
    /\ platform = "switch" /\ always_available = FALSE
    /\ connected = TRUE
    /\ key = "ecomax_control"
    /\ attr_available = FALSE
    /\ native_value = "Unknown"
    /\ last_value = [g \in Gens |-> "NoValue"]
    /\ set_available_calls = [g \in Gens |-> 0]
    /\ fed = [g \in Gens |-> <<>>]
    /\ forwarded = [g \in Gens |-> <<>>]
    /\ now = 0 /\ last_called = [g \in Gens |-> NoTime]
    /\ fed_at = [g \in Gens |-> <<>>]
    /\ forwarded_at = [g \in Gens |-> <<>>]
    /\ sum = [g \in Gens |-> 0] /\ last_update = [g \in Gens |-> 0]
    /\ meter_value = NoNumber /\ restored = NoNumber
    /\ last_reset = NoTime /\ commands = <<>> /\ attach_pc = "idle"
    /\ is_on = "None" /\ writes = <<>>
    /\ pending = <<>> /\ pending_value = "NoValue"
    /\ ecomax = "None" /\ conn_callbacks = {}
    /\ heater = NewHeater /\ device_attrs = NoAttrs
    /\ fan_state = "idle" /\ fan_iter = <<>> /\ fan_used = 0
    /\ fan_invoked = {} /\ fan_start = {}
    /\ entry_state = [en \in EntryIds |-> "NOT_LOADED"]
    /\ hass_data = {} /\ setups = <<>>
    /\ close_calls = [c \in 1 .. MaxSetups |-> 0] /\ unload_results = <<>>
    /\ config_entry = CurrentEntry /\ responding = TRUE
    /\ migrate_pc = "idle" /\ migrate_log = <<>>
    /\ migrate_start = CurrentEntry
    /\ present_at_attach = [g \in Gens |-> FALSE]
    /\ attached_at = [g \in Gens |-> 0]
    /\ dispatches = 0

ConnectionNext ==
    \/ RegisterCallback
    \/ RemoveCallback
    \/ UpdateEntities
    \/ ConnectionClosed
    \/ FanoutStep

\* No entry is set up; no flow, no entity.
SetupInit ==
    /\ connection = "None" /\ device = "None"
    /\ identify_task = 0 /\ discover_task = 0
    /\ init_info = <<>>
    /\ tasks = <<>> /\ conn_open = FALSE /\ unique_id = "None"
    /\ cur_step = "None" /\ flow_status = "none" /\ progress_task = 0
    /\ result = NoResult /\ reported = <<>> /\ entries = {}
    /\ connect_outcome = "None" /\ submits = 0
    /\ configured = {}
    /\ dev = [product |-> [uid |-> "TEST", model |-> EM850P, type |-> 0,
                           id |-> 4],
              modules |-> [module_a |-> "6.10.32.K1"],
              sub_devices |-> <<>>]
    /\ data = "NoValue" /\ callbacks = <<>> /\ attached = FALSE /\ gen = 0
    /\ platform = "switch" /\ always_available = FALSE
    /\ connected = TRUE
    /\ key = "ecomax_control"
    /\ attr_available = FALSE
    /\ native_value = "Unknown"
    /\ last_value = [g \in Gens |-> "NoValue"]
    /\ set_available_calls = [g \in Gens |-> 0]
    /\ fed = [g \in Gens |-> <<>>]
    /\ forwarded = [g \in Gens |-> <<>>]
    /\ now = 0 /\ last_called = [g \in Gens |-> NoTime]
    /\ fed_at = [g \in Gens |-> <<>>]
    /\ forwarded_at = [g \in Gens |-> <<>>]
    /\ sum = [g \in Gens |-> 0] /\ last_update = [g \in Gens |-> 0]
    /\ meter_value = NoNumber /\ restored = NoNumber
    /\ last_reset = NoTime /\ commands = <<>> /\ attach_pc = "idle"
    /\ is_on = "None" /\ writes = <<>>
    /\ pending = <<>> /\ pending_value = "NoValue"
    /\ ecomax = "None" /\ conn_callbacks = {}
    /\ heater = NewHeater /\ device_attrs = NoAttrs
    /\ fan_state = "idle" /\ fan_iter = <<>> /\ fan_used = 0
    /\ fan_invoked = {} /\ fan_start = {}
    /\ entry_state = [en \in EntryIds |-> "NOT_LOADED"]
    /\ hass_data = {} /\ setups = <<>>
    /\ close_calls = [c \in 1 .. MaxSetups |-> 0] /\ unload_results = <<>>
    /\ config_entry = CurrentEntry /\ responding = TRUE
    /\ migrate_pc = "idle" /\ migrate_log = <<>>
    /\ migrate_start = CurrentEntry
    /\ present_at_attach = [g \in Gens |-> FALSE]
    /\ attached_at = [g \in Gens |-> 0]
    /\ dispatches = 0

SetupNext ==
    \/ SetupEntry
    \/ UnloadEntry

\* An entry of an old version, and a device that answers or does not.
MigrateInit ==
    /\ connection = "None" /\ device = "None"
    /\ identify_task = 0 /\ discover_task = 0
    /\ init_info = <<>>
    /\ tasks = <<>> /\ conn_open = FALSE /\ unique_id = "None"
    /\ cur_step = "None" /\ flow_status = "none" /\ progress_task = 0
    /\ result = NoResult /\ reported = <<>> /\ entries = {}
    /\ connect_outcome = "None" /\ submits = 0
    /\ configured = {}
    /\ dev = [product |-> [uid |-> "TEST", model |-> EM850P, type |-> 0,
                           id |-> 4],
              modules |-> [module_a |-> "6.10.32.K1"],
              sub_devices |-> <<>>]
    /\ data = "NoValue" /\ callbacks = <<>> /\ attached = FALSE /\ gen = 0
    /\ platform = "switch" /\ always_available = FALSE
    /\ connected = TRUE
    /\ key = "ecomax_control"
    /\ attr_available = FALSE
    /\ native_value = "Unknown"
    /\ last_value = [g \in Gens |-> "NoValue"]
    /\ set_available_calls = [g \in Gens |-> 0]
    /\ fed = [g \in Gens |-> <<>>]
    /\ forwarded = [g \in Gens |-> <<>>]
    /\ now = 0 /\ last_called = [g \in Gens |-> NoTime]
    /\ fed_at = [g \in Gens |-> <<>>]
    /\ forwarded_at = [g \in Gens |-> <<>>]
    /\ sum = [g \in Gens |-> 0] /\ last_update = [g \in Gens |-> 0]
    /\ meter_value = NoNumber /\ restored = NoNumber
    /\ last_reset = NoTime /\ commands = <<>> /\ attach_pc = "idle"
    /\ is_on = "None" /\ writes = <<>>
    /\ pending = <<>> /\ pending_value = "NoValue"
    /\ ecomax = "None" /\ conn_callbacks = {}
    /\ heater = NewHeater /\ device_attrs = NoAttrs
    /\ fan_state = "idle" /\ fan_iter = <<>> /\ fan_used = 0
    /\ fan_invoked = {} /\ fan_start = {}
    /\ entry_state = [en \in EntryIds |-> "NOT_LOADED"]
    /\ hass_data = {} /\ setups = <<>>
    /\ close_calls = [c \in 1 .. MaxSetups |-> 0] /\ unload_results = <<>>
    /\ config_entry \in OldEntries /\ responding \in BOOLEAN
    /\ migrate_pc = "idle" /\ migrate_log = <<>>
    /\ migrate_start = config_entry
    /\ present_at_attach = [g \in Gens |-> FALSE]
    /\ attached_at = [g \in Gens |-> 0]
    /\ dispatches = 0

MigrateNext ==
    \/ MigrateStart
    \/ MigrateStep12
    \/ MigrateStep3
    \/ MigrateStep4

\* The meter added to hass on a device object that holds no value yet.
MeterCommandInit ==
    /\ connection = "None" /\ device = "None"
    /\ identify_task = 0 /\ discover_task = 0
    /\ init_info = <<>>
    /\ tasks = <<>> /\ conn_open = FALSE /\ unique_id = "None"
    /\ cur_step = "None" /\ flow_status = "none" /\ progress_task = 0
    /\ result = NoResult /\ reported = <<>> /\ entries = {}
    /\ connect_outcome = "None" /\ submits = 0
    /\ configured = {}
    /\ dev = [product |-> [uid |-> "TEST", model |-> EM850P, type |-> 0,
                           id |-> 4],
              modules |-> [module_a |-> "6.10.32.K1"],
              sub_devices |-> <<>>]
    /\ data = "NoValue" /\ attached = TRUE /\ gen = 1
    /\ callbacks = <<[kind |-> "once", gen |-> 1, owner |-> "self"], Func(1)>>
    /\ platform = "sensor" /\ always_available = TRUE
    /\ connected = TRUE
    /\ key = "fuel_burned"
    /\ attr_available = FALSE
    /\ native_value = "Unknown"
    /\ last_value = [g \in Gens |-> "NoValue"]
    /\ set_available_calls = [g \in Gens |-> 0]
    /\ fed = [g \in Gens |-> <<>>]
    /\ forwarded = [g \in Gens |-> <<>>]
    /\ now = 0 /\ last_called = [g \in Gens |-> NoTime]
    /\ fed_at = [g \in Gens |-> <<>>]
    /\ forwarded_at = [g \in Gens |-> <<>>]
    /\ sum = [g \in Gens |-> 0] /\ last_update = [g \in Gens |-> 0]
    /\ restored \in LastSensorData
    /\ meter_value = IF restored = NoNumber THEN 0 ELSE restored
    /\ last_reset = NoTime /\ commands = <<>> /\ attach_pc = "idle"
    /\ is_on = "None" /\ writes = <<>>
    /\ pending = <<>> /\ pending_value = "NoValue"
    /\ ecomax = "None" /\ conn_callbacks = {}
    /\ heater = NewHeater /\ device_attrs = NoAttrs
    /\ fan_state = "idle" /\ fan_iter = <<>> /\ fan_used = 0
    /\ fan_invoked = {} /\ fan_start = {}
    /\ entry_state = [en \in EntryIds |-> "NOT_LOADED"]
    /\ hass_data = {} /\ setups = <<>>
    /\ close_calls = [c \in 1 .. MaxSetups |-> 0] /\ unload_results = <<>>
    /\ config_entry = CurrentEntry /\ responding = TRUE
    /\ migrate_pc = "idle" /\ migrate_log = <<>>
    /\ migrate_start = CurrentEntry
    /\ present_at_attach = [g \in Gens |-> FALSE]
    /\ attached_at = [g \in Gens |-> 0]
    /\ dispatches = 0

MeterCommandNext ==
    \/ Dispatch
    \/ MeterTick
    \/ CalibrateMeter
    \/ ResetMeter

MeterAttachNext ==
    \/ MeterAttachBegin
    \/ MeterAttachRestore
    \/ Dispatch
    \/ MeterTick

EntityNext ==
    \/ Attach
    \/ Detach
    \/ Dispatch
    \/ ConnectionMade
    \/ ConnectionLost

\* The wizard, from the start of a flow.
WizardSpec == WizardInit /\ [][WizardNext]_vars

\* The wizard with the scheduling the event loop gives: a pending task's
\* request ends (answer or timeout) and the flow is configured again.
WizardLiveSpec ==
    /\ WizardLiveInit
    /\ [][WizardNext]_vars
    /\ WF_vars(Poll)
    /\ WF_vars(IdentifyTaskStep)
    /\ WF_vars(DiscoverTaskStep)

\* One sensor with a throttle filter on one key of the device, and time.
ThrottleSpec == ThrottleInit /\ [][ThrottleNext]_vars

\* The fuel-burned meter with its aggregate filter, and time.
MeterSpec == MeterInit /\ [][MeterNext]_vars

\* One entity on one key of the device, with subscriptions added and removed
\* while a dispatch is in progress.
RegistrySpec == RegistryInit /\ [][RegistryNext]_vars

\* The connection with the callbacks registered on it.
ConnectionSpec == ConnectionInit /\ [][ConnectionNext]_vars

\* Config entries set up and unloaded.
SetupSpec == SetupInit /\ [][SetupNext]_vars

\* The migration of one entry.
MigrateSpec == MigrateInit /\ [][MigrateNext]_vars

\* The fuel-burned meter with its services.
MeterCommandSpec == MeterCommandInit /\ [][MeterCommandNext]_vars

\* The heating_temp sensor while the device keeps reporting and time keeps
\* passing.
ThrottleLiveSpec ==
    /\ ThrottleLiveInit
    /\ [][ThrottleLiveNext]_vars
    /\ WF_vars(PeriodicDispatch)
    /\ WF_vars(LiveTick)

\* The fuel-burned meter with its attach taken one await at a time.
MeterAttachSpec == MeterInit /\ [][MeterAttachNext]_vars

\* The water heater on its connection.
HeaterSpec == HeaterInit /\ [][HeaterNext]_vars

\* One switch on one key of the device.
SwitchSpec == SwitchInit /\ [][SwitchNext]_vars

\* One entity on one key of the device.
EntitySpec == EntityInit /\ [][EntityNext]_vars

(***************************************************************************)
(* Properties of the wizard.                                               *)
(***************************************************************************)
\* A step of the flow ran: one more result was returned to the caller.
StepRan == Len(reported') = Len(reported) + 1

InFlight(kind) ==
    {t \in DOMAIN tasks : tasks[t].kind = kind /\ tasks[t].pc \in Pending}

\* The current progress step is entered while its task is still pending.
ReEntered ==
    /\ flow_status = "active" /\ cur_step \in {"identify", "discover"}
    /\ CurrentTask # 0 /\ tasks[CurrentTask].pc \in Pending
    /\ StepRan

\* C1: re-entering the identify or the discover step while its task is
\* pending creates no second task and reports the same task handle; at most
\* one task per step is ever in flight.
C1_IdempotentReentry ==
    [][/\ (Cardinality(InFlight("identify")) <= 1)'
       /\ (Cardinality(InFlight("discover")) <= 1)'
       /\ ReEntered =>
             /\ tasks' = tasks
             /\ result'.type = "progress"
             /\ result'.step_id = cur_step
             /\ result'.task = CurrentTask
             /\ identify_task' = identify_task
             /\ discover_task' = discover_task]_vars

\* Both steps were re-entered while their task was pending.
C1_Witness ==
    \E i, j \in DOMAIN reported :
       /\ i + 1 \in DOMAIN reported /\ j + 1 \in DOMAIN reported
       /\ reported[i].type = "progress" /\ reported[i].step_id = "identify"
       /\ reported[i + 1] = reported[i]
       /\ reported[j].type = "progress" /\ reported[j].step_id = "discover"
       /\ reported[j + 1] = reported[j]
       /\ Len(tasks) = 2

RECURSIVE ProgressSteps(_)
\* The step ids of the progress results of rs, in order, each run of the
\* same step counted once.
ProgressSteps(rs) ==
    IF rs = <<>> THEN <<>>
    ELSE LET before == ProgressSteps(SubSeq(rs, 1, Len(rs) - 1))
             last == rs[Len(rs)]
         IN  IF last.type # "progress" THEN before
             ELSE IF before # <<>> /\ before[Len(before)] = last.step_id
             THEN before
             ELSE Append(before, last.step_id)

IsPrefix(p, s) == Len(p) <= Len(s) /\ p = SubSeq(s, 1, Len(p))

\* C2: after the connection succeeds the progress steps reported are the
\* device-wait step, then identify, then discover, in this order.
C2_StepOrder ==
    IsPrefix(ProgressSteps(reported), <<"device_wait", "identify", "discover">>)

\* C3: when the task of a progress step has ended with a timeout, the next
\* poll aborts the flow with the step's reason (identify: no_devices_found,
\* discover: discovery_failed) and no configuration entry is created.
C3_TimeoutAborts ==
    [][(/\ flow_status = "active" /\ cur_step \in {"identify", "discover"}
        /\ CurrentTask # 0 /\ tasks[CurrentTask].pc = "TimeoutError"
        /\ StepRan)
       => /\ result'.type = "abort"
          /\ result'.reason = (IF cur_step = "identify"
                               THEN "no_devices_found"
                               ELSE "discovery_failed")
          /\ flow_status' = "done"
          /\ entries' = {}]_vars

\* The discover task timed out and the flow aborted with discovery_failed.
C3_Witness ==
    /\ result.type = "abort" /\ result.reason = "discovery_failed"
    /\ \E t \in DOMAIN tasks :
          tasks[t].kind = "discover" /\ tasks[t].pc = "TimeoutError"

\* C4: for a device whose product type is not recognised the flow never
\* enters the discover step, never starts a discover task and creates no
\* entry; once the identify task that read the product has been awaited, the
\* flow has aborted with unsupported_device.
C4_UnsupportedDevice ==
    dev.product.type \notin ProductType =>
       /\ \A t \in DOMAIN tasks : tasks[t].kind # "discover"
       /\ \A i \in DOMAIN reported :
             /\ reported[i].step_id \notin {"discover", "finish"}
             /\ reported[i].type # "create_entry"
       /\ entries = {}
       /\ (identify_task = 0
           /\ \E t \in DOMAIN tasks : tasks[t].pc = "UnsupportedProduct")
          => /\ result = async_abort("unsupported_device")
             /\ flow_status = "done"

\* The product was read, its type is unknown, and the flow aborted.
C4_Witness ==
    /\ result.reason = "unsupported_device"
    /\ dev.product.type \notin ProductType
    /\ device = "ecomax"

\* The error code the form shows for each way a connection attempt fails.
ErrorCode(outcome) ==
    CASE outcome = "ConnectionFailedError" -> "cannot_connect"
      [] outcome = "TimeoutError" -> "timeout_connect"
      [] outcome = "Exception" -> "unknown"

\* C5: a failed connection attempt in the tcp or serial step shows the same
\* form again with the error code of the failure; the flow stays active and
\* no task has been started; a submission that connects reports a progress
\* step.
C5_FormErrors ==
    [][(submits' = submits + 1)
       => IF connect_outcome' = "ok"
          THEN /\ result'.type = "progress"
               /\ flow_status' = "active"
          ELSE /\ result' = async_show_form(cur_step, ErrorCode(connect_outcome'))
               /\ cur_step' = cur_step
               /\ flow_status' = "active"
               /\ tasks' = <<>> /\ identify_task' = 0
               /\ connection' = "None"]_vars

\* A connection timeout was shown in the form, and the next submission
\* connected and reached a progress step.
C5_Witness ==
    /\ result.type = "progress" /\ connect_outcome = "ok" /\ submits = 2
    /\ \E i \in DOMAIN reported :
          reported[i].type = "form" /\ reported[i].errors = "timeout_connect"

UidKnown == CONF_UID \in DOMAIN init_info

\* C6: no discover task exists for a unique id that is already configured,
\* and no entry is created for it; once the identify task that learned the
\* unique id has been awaited, the flow has aborted.
C6_DuplicateCheck ==
    (UidKnown /\ init_info[CONF_UID] \in configured) =>
       /\ \A t \in DOMAIN tasks : tasks[t].kind # "discover"
       /\ entries = {}
       /\ identify_task = 0 =>
             /\ result = async_abort("already_configured")
             /\ flow_status = "done"
             /\ unique_id = init_info[CONF_UID]

\* The device's unique id was learned, it is configured, the flow aborted.
C6_Witness ==
    /\ UidKnown /\ init_info[CONF_UID] \in configured
    /\ result.reason = "already_configured"

\* C7: when the flow is abandoned after the connection was opened, no task
\* is left in flight, the connection is closed and no entry exists.
C7_AbandonCleansUp ==
    (flow_status = "removed" /\ connection # "None") =>
       /\ InFlight("identify") = {} /\ InFlight("discover") = {}
       /\ ~conn_open
       /\ entries = {}

\* C8: once the connection parameters have been accepted, the flow
\* eventually finishes, aborts or is removed.
C8_Terminates ==
    (connection # "None") ~> (flow_status \in {"done", "removed"})

\* The flow went through both tasks, one of which timed out at its last
\* request, and ended.
C8_Witness ==
    /\ flow_status = "done" /\ connection # "None"
    /\ Len(tasks) = 2 /\ tasks[2].pc = "TimeoutError"
    /\ device = "ecomax"

AllKeys ==
    {CONF_CONNECTION_TYPE, CONF_UID, CONF_MODEL, CONF_PRODUCT_TYPE,
     CONF_PRODUCT_ID, CONF_SOFTWARE, CONF_SUB_DEVICES}

\* C9: the entry created at finish holds the connection parameters and type
\* and what was read from the device in this run: unique id, formatted model
\* name (also the title), product type and id, software versions and the
\* sub-device list.
C9_FinishRecord ==
    \A e \in entries :
       /\ AllKeys \subseteq DOMAIN e.data
       /\ \E input \in TcpInputs \cup SerialInputs :
             \A k \in DOMAIN input : k \in DOMAIN e.data /\ e.data[k] = input[k]
       /\ e.data[CONF_UID] = dev.product.uid
       /\ e.data[CONF_MODEL] = format_model_name(dev.product.model)
       /\ e.title = e.data[CONF_MODEL]
       /\ e.data[CONF_PRODUCT_TYPE] = dev.product.type
       /\ e.data[CONF_PRODUCT_ID] = dev.product.id
       /\ e.data[CONF_SOFTWARE] = dev.modules
       /\ e.data[CONF_SUB_DEVICES] = dev.sub_devices

(***************************************************************************)
(* Properties of the entity.                                               *)
(***************************************************************************)
\* C10 as stated: async_set_available is executed exactly once per attach:
\* never more than once, and once as soon as the key has held a value.
C10_ExactlyOnce ==
    \A g \in 1 .. gen :
       /\ set_available_calls[g] <= 1
       /\ (present_at_attach[g] \/ dispatches > attached_at[g])
             => set_available_calls[g] = 1

\* C10 amended: per attach, async_set_available is executed once by its
\* one-shot subscription, at the first dispatch after the attach, and once
\* more directly by the attach when the key already held a value.
C10_OncePerEvent ==
    \A g \in 1 .. gen :
       set_available_calls[g] =
          (IF present_at_attach[g] THEN 1 ELSE 0)
          + (IF dispatches > attached_at[g] THEN 1 ELSE 0)

\* An attach on a key that held a value, followed by a dispatch of that
\* value, which the on_change filter suppressed.
C10_Witness ==
    \E g \in 1 .. gen :
       /\ present_at_attach[g] /\ dispatches > attached_at[g]
       /\ set_available_calls[g] = 2
       /\ data = last_value[g] /\ dispatches = attached_at[g] + 1

\* A value of the key has been observed since the most recent attach: the
\* key held one at the attach, or one was dispatched afterwards.
ValueObserved ==
    present_at_attach[gen] \/ dispatches > attached_at[gen]

\* C11: an attached entity reports itself available if and only if the
\* connection is established and a value of its key has been observed since
\* its most recent attach.
C11_Availability ==
    attached => (available <=> (connected /\ ValueObserved))

\* C12: an attached entity whose description is marked always_available
\* reports itself available, also while the connection is not established.
C12_AlwaysAvailable ==
    (attached /\ always_available) => available

\* C13: an attach on a key that holds a value delivers that value to the
\* filter-wrapped update callback within the attach, so that it is the first
\* value the entity receives; an attach on a key that holds no value delivers
\* nothing and leaves the entity's state unknown.
C13_InitialReplay ==
    [][(gen' = gen + 1)
       => IF data # "NoValue"
          THEN /\ fed'[gen'] = <<data>>
               /\ forwarded'[gen'] = <<data>>
               /\ native_value' = data
          ELSE /\ fed'[gen'] = <<>>
               /\ forwarded'[gen'] = <<>>
               /\ native_value' = "Unknown"]_vars

\* The entity was attached on a key that held a value and then received a
\* dispatched value that differs from it.
C13_Witness ==
    /\ gen >= 1 /\ present_at_attach[gen]
    /\ Len(forwarded[gen]) = 2
    /\ forwarded[gen][1] # forwarded[gen][2]
    /\ native_value = forwarded[gen][2]

RECURSIVE Runs(_)
\* One value for each maximal run of equal consecutive values of s.
Runs(s) ==
    IF Len(s) <= 1 THEN s
    ELSE LET before == Runs(SubSeq(s, 1, Len(s) - 1))
         IN  IF s[Len(s)] = s[Len(s) - 1] THEN before
             ELSE Append(before, s[Len(s)])

\* C15: what the on_change filter of an attach has passed to the update
\* callback is one value for each maximal run of equal consecutive values
\* it was called with, the first value included.
C15_OnChangeRuns ==
    key = "heating_target" =>
       \A g \in 1 .. gen : forwarded[g] = Runs(fed[g])

\* The filter was called with a value, the same value again, and another.
C15_Witness ==
    /\ key = "heating_target"
    /\ \E g \in 1 .. gen :
          /\ Len(fed[g]) = 3
          /\ fed[g][1] = fed[g][2] /\ fed[g][2] # fed[g][3]
          /\ forwarded[g] = <<fed[g][1], fed[g][3]>>

\* C16: two consecutive calls of the update callback through one
\* throttle(on_change(x), seconds) filter are at least seconds apart, and the
\* filter forwards a value only within the call that fed it: a value it
\* suppressed is never forwarded later.
C16_ThrottleSpacing ==
    [][key = "heating_temp" =>
         \A g \in Gens :
            /\ \A i \in DOMAIN forwarded_at'[g] :
                  i > 1 => forwarded_at'[g][i] - forwarded_at'[g][i - 1]
                              >= THROTTLE_SECONDS
            /\ forwarded'[g] # forwarded[g]
                  => /\ Len(fed'[g]) = Len(fed[g]) + 1
                     /\ forwarded'[g] =
                           Append(forwarded[g], fed'[g][Len(fed'[g])])
                     /\ forwarded_at'[g] = Append(forwarded_at[g], now)
                     /\ native_value' = fed'[g][Len(fed'[g])]]_vars

\* A value was forwarded, a changed value was suppressed less than seconds
\* later, and a value was forwarded again once seconds had passed.
C16_Witness ==
    /\ key = "heating_temp"
    /\ \E g \in 1 .. gen :
          /\ Len(forwarded[g]) = 2 /\ Len(fed[g]) = 3
          /\ fed[g][2] # fed[g][1]
          /\ fed_at[g][2] - fed_at[g][1] < THROTTLE_SECONDS
          /\ forwarded_at[g] = <<fed_at[g][1], fed_at[g][3]>>

\* C17: the first value after subscription is forwarded at once, and a value
\* that differs from the value last delivered to the entity and arrives at
\* least seconds after that delivery is forwarded in the dispatch that
\* brings it.
C17_ThrottleForwardsEligible ==
    [][key = "heating_temp" =>
         \A g \in Gens :
            Len(fed'[g]) = Len(fed[g]) + 1 =>
               LET value == fed'[g][Len(fed'[g])]
                   n == Len(forwarded[g])
                   delivered == forwarded'[g] = Append(forwarded[g], value)
               IN  /\ n = 0 => delivered
                   /\ (/\ n > 0
                       /\ value # forwarded[g][n]
                       /\ now - forwarded_at[g][n] >= THROTTLE_SECONDS)
                      => delivered]_vars

RECURSIVE SumOf(_)
\* The sum of a sequence of numbers.
SumOf(s) == IF s = <<>> THEN 0 ELSE s[Len(s)] + SumOf(SubSeq(s, 1, Len(s) - 1))

RECURSIVE SumOfIncrements(_)
\* The sum of the numbers a sequence of reported increments stands for.
SumOfIncrements(s) ==
    IF s = <<>> THEN 0
    ELSE Num(s[Len(s)]) + SumOfIncrements(SubSeq(s, 1, Len(s) - 1))

ShownFor(value) ==
    CASE value = STATE_ON -> "True"
      [] value = STATE_OFF -> "False"
      [] OTHER -> "None"

\* C19: a write to the switch is issued without waiting and the switch shows
\* the requested state at once; after every dispatch of the key to the
\* attached switch, the switch shows the value the device reported.
C19_OptimisticThenCorrected ==
    [][/\ Len(writes') = Len(writes) + 1
          => /\ is_on' = ShownFor(writes'[Len(writes')])
             /\ data' = data /\ dispatches' = dispatches
       /\ (attached /\ dispatches' = dispatches + 1)
          => is_on' = ShownFor(data')]_vars

\* The one-shot subscription of attach g.
Once(g) == [kind |-> "once", gen |-> g, owner |-> "self"]

\* The times the one-shot subscription of attach g was invoked:
\* async_set_available is executed by it, and by the attach itself when the
\* key held a value.
OnceInvocations(g) ==
    set_available_calls[g] - (IF present_at_attach[g] THEN 1 ELSE 0)

InSeq(c, s) == \E i \in DOMAIN s : s[i] = c

\* C20: the one-shot subscription of an attach is invoked at most once over
\* all dispatches of its key, and it is registered no longer than until the
\* first dispatch that began after the attach has called it, whatever the
\* filter of the update callback did with the value, with attaches and
\* detaches happening while a dispatch is in progress.
C20_OneShotOnce ==
    \A g \in 1 .. gen :
       /\ OnceInvocations(g) \in {0, 1}
       /\ InSeq(Once(g), callbacks)
             => /\ OnceInvocations(g) = 0
                /\ dispatches > attached_at[g]
                      => /\ pending_value # "NoValue"
                         /\ dispatches = attached_at[g] + 1
                         /\ InSeq(Once(g), pending)
       /\ (dispatches > attached_at[g] /\ pending_value = "NoValue")
             => OnceInvocations(g) = 1

\* A dispatch in progress, the first after attach 1: it invoked the one-shot
\* subscription of attach 1 once and removed it, the on_change filter of
\* attach 1 suppressed the value, and the entity was detached and attached
\* again before the dispatch ended.
C20_Witness ==
    /\ pending_value # "NoValue" /\ gen = 2
    /\ attached_at[2] = dispatches /\ attached_at[1] = dispatches - 1
    /\ OnceInvocations(1) = 1 /\ ~InSeq(Once(1), callbacks)
    /\ Len(forwarded[1]) < Len(fed[1])
    /\ InSeq(Once(2), callbacks) /\ ~InSeq(Once(2), pending)


(***************************************************************************)
(* Properties of the connection's fan-out.                                 *)
(***************************************************************************)
\* C21: a callback that raises during a fan-out is caught: the error does
\* not leave the loop, and a fan-out that has ended has called every callback
\* that was registered from its beginning to its end.
C21_CallbackFailureIsolated ==
    /\ fan_state # "CallbackError"
    /\ fan_state = "done" => (fan_start \cap conn_callbacks) \subseteq fan_invoked

\* C22: removing a callback that is not registered changes nothing; a
\* fan-out calls only callbacks that are registered at that moment; and a
\* fan-out during which callbacks were removed and none was added does not
\* end with an error.
C22_RemovalSafe ==
    [][/\ \A c \in Callbacks :
             c \notin conn_callbacks
                => remove_callback(conn_callbacks, c) = conn_callbacks
       /\ \A c \in fan_invoked' \ fan_invoked : c \in conn_callbacks
       /\ conn_callbacks \subseteq fan_start => fan_state' # "RuntimeError"]_vars


(***************************************************************************)
(* Properties of setup and unload.                                         *)
(***************************************************************************)
\* The connection of the latest setup of entry.
LatestSetup(entry) ==
    CHOOSE c \in DOMAIN setups :
       /\ setups[c].entry = entry
       /\ \A d \in DOMAIN setups : setups[d].entry = entry => d <= c

\* C23: a setup whose connection setup timed out raised ConfigEntryNotReady,
\* set up no services and events, forwarded no platform, and its connection is
\* not in hass.data; the other setups returned True; and a loaded entry has
\* exactly one connection in hass.data, the one of its latest setup.
C23_SetupTimeoutNotLoaded ==
    /\ \A c \in DOMAIN setups :
          IF setups[c].timed_out
          THEN /\ setups[c].result = "ConfigEntryNotReady"
               /\ setups[c].done = {}
               /\ \A p \in hass_data : p[2] # c
          ELSE setups[c].result = "True"
    /\ \A entry \in EntryIds :
          entry_state[entry] = "LOADED"
             => {p \in hass_data : p[1] = entry}
                   = {<<entry, LatestSetup(entry)>>}

\* A setup of an entry that timed out, and a later setup of the same entry
\* that stored its connection.
C23_Witness ==
    \E c, d \in DOMAIN setups :
       /\ c < d /\ setups[c].entry = setups[d].entry
       /\ setups[c].timed_out /\ ~setups[d].timed_out
       /\ <<setups[d].entry, d>> \in hass_data

\* C24: an unload of an entry with a connection in hass.data whose platforms
\* unloaded closes that connection once and removes it from hass.data; every
\* other unload closes nothing and leaves hass.data as it is, and an unload
\* of an entry that is not loaded succeeds; no connection is closed twice.
C24_UnloadIdempotent ==
    [][/\ Len(unload_results') = Len(unload_results) + 1
          => LET u == unload_results'[Len(unload_results')]
             IN  IF u.unload_ok /\ HasKey(hass_data, u.entry)
                 THEN /\ close_calls' =
                            [close_calls EXCEPT
                                ![Get(hass_data, u.entry)] = @ + 1]
                      /\ hass_data' = Pop(hass_data, u.entry)
                 ELSE /\ close_calls' = close_calls
                      /\ hass_data' = hass_data
                      /\ ~HasKey(hass_data, u.entry) => u.unload_ok
       /\ \A c \in DOMAIN close_calls' : close_calls'[c] <= 1]_vars

\* An entry was set up, unloaded, and unloaded again: its connection was
\* closed once and is no longer in hass.data.
C24_Witness ==
    \E i, j \in DOMAIN unload_results :
       /\ i < j /\ unload_results[i].entry = unload_results[j].entry
       /\ unload_results[i].unload_ok
       /\ \E c \in DOMAIN setups :
             /\ setups[c].entry = unload_results[i].entry
             /\ close_calls[c] = 1
       /\ ~HasKey(hass_data, unload_results[i].entry)
       /\ Len(setups) = 1


(***************************************************************************)
(* Properties of the migration.                                            *)
(***************************************************************************)
\* The versions assigned are those above the entry's version, in ascending
\* order.
AscendingFrom(v, log) ==
    \A i \in DOMAIN log : log[i] = (IF v <= 2 THEN 2 ELSE v) + i

\* What every migration of an entry of version 1 to 4 with a responding
\* device does: it never returns False, it assigns the versions in ascending
\* order, and when it has returned the entry is at version 5 without
\* capabilities and with sub-devices.
MigratesToLatest ==
    /\ migrate_start.version \in 1 .. 4 /\ responding
          => migrate_pc # "False"
    /\ AscendingFrom(migrate_start.version, migrate_log)
    /\ config_entry.version >= migrate_start.version
    /\ (responding /\ migrate_pc = "True")
          => /\ config_entry.version = 5
             /\ CONF_CAPABILITIES \notin config_entry.keys
             /\ CONF_SUB_DEVICES \in config_entry.keys

\* C25 as stated: a migration from any version 1 to 4 with a responding
\* device applies the remaining steps in ascending order, never decreases the
\* version and returns True with the entry at version 5, its model name
\* formatted, no capabilities and its sub-devices.
C25_MigratesFormatted ==
    /\ MigratesToLatest
    /\ (responding /\ migrate_pc = "True")
          => format_model_name(config_entry.model) = config_entry.model

\* C25 amended: as stated, but the model name is formatted by the step from
\* version 3 only: a migration that starts at version 4 leaves the model name
\* as it is.
C25_MigratesFormatsBelow4 ==
    /\ MigratesToLatest
    /\ (responding /\ migrate_pc = "True")
          => config_entry.model =
                (IF migrate_start.version <= 3
                 THEN format_model_name(migrate_start.model)
                 ELSE migrate_start.model)

\* A migration from version 1 that returned True after three steps and
\* changed the model name, removed the capabilities and added sub-devices.
C25_Witness ==
    /\ migrate_pc = "True" /\ migrate_start.version = 1
    /\ migrate_log = <<3, 4, 5>>
    /\ migrate_start.model = EM850P /\ config_entry.model = ecoMAX_850P
    /\ CONF_CAPABILITIES \in migrate_start.keys
    /\ config_entry.sub_devices = <<"water_heater">>


(***************************************************************************)
(* Properties of the meter's services.                                     *)
(***************************************************************************)
\* C26: a reset sets the stored value to 0 and marks the time of the reset,
\* a calibration sets the stored value to the value given; neither changes
\* the state of the aggregate filter or what it received and passed on; and
\* a total that the filter passes on, which holds every increment received
\* since the total before it, is added to the stored value as it is then.
C26_CommandsBypassFilter ==
    [][/\ Len(commands') = Len(commands) + 1
          => LET c == commands'[Len(commands')]
             IN  /\ c.cmd = "reset"
                    => meter_value' = 0 /\ last_reset' = now
                 /\ c.cmd = "calibrate"
                    => meter_value' = c.value /\ last_reset' = last_reset
                 /\ UNCHANGED <<sum, last_update, fed, fed_at, forwarded,
                                forwarded_at, callbacks>>
       /\ \A g \in Gens :
             (attached /\ forwarded'[g] # forwarded[g])
                => /\ forwarded'[g] =
                         Append(forwarded[g],
                                sum[g] + Num(fed'[g][Len(fed'[g])]))
                   /\ meter_value' =
                         meter_value + forwarded'[g][Len(forwarded'[g])]]_vars

\* The meter restored 1.20, received the increment 0.1 at 0 and was reset
\* at 15; the window closed at 30 with the increment 0.2: the total 0.30,
\* with the increment received before the reset, was added to 0.
C26_Witness ==
    /\ attached /\ restored = 120
    /\ commands = <<[cmd |-> "reset", value |-> 0]>> /\ last_reset = 15
    /\ fed[gen] = <<"0.1", "0.2">> /\ fed_at[gen] = <<0, 30>>
    /\ forwarded[gen] = <<30>>
    /\ meter_value = 30


(***************************************************************************)
(* The temporary connection of the wizard.                                 *)
(***************************************************************************)
\* C27: when the flow has ended with a result, the created entry or one of
\* the aborts, the connection that the tcp or serial step opened is closed.
C27_TerminalClosed ==
    (flow_status = "done" /\ result.type \in Terminal /\ connection # "None")
       => ~conn_open


(***************************************************************************)
(* Eventual delivery through throttle(on_change(x)).                       *)
(***************************************************************************)
\* C28: when the device's value for the key stays at v from some time on,
\* while the device keeps reporting it and time keeps passing, the entity
\* shows v from some time on.
C28_SettledValueShown ==
    \A v \in Values :
       <>[](attached /\ data = v) => <>[](native_value = v)

\* The throttle dropped a changed value, the device's value stayed at it,
\* and a later report of it reached the entity.
C28_Witness ==
    /\ attached /\ key = "heating_temp"
    /\ \E i \in 1 .. Len(fed[gen]) :
          /\ fed[gen][i] = data
          /\ fed_at[gen][i] \notin {forwarded_at[gen][j] :
                                      j \in 1 .. Len(forwarded_at[gen])}
          /\ \A k \in i .. Len(fed[gen]) : fed[gen][k] = data
          /\ \E k \in 1 .. Len(forwarded[gen]) :
                /\ forwarded[gen][k] = data /\ forwarded_at[gen][k] > fed_at[gen][i]
                /\ k > 1 /\ forwarded[gen][k - 1] # data
    /\ native_value = data


(***************************************************************************)
(* The meter's attach, interleaved with the device's reports.              *)
(***************************************************************************)
\* C29: a window total that the filter forwards finds a number in the
\* meter's stored value, and once the attach has completed the stored value
\* is the restored value, or 0.0, plus the totals forwarded since the meter
\* subscribed.
C29_AttachLosesNothing ==
    [][/\ \A g \in Gens :
             forwarded'[g] # forwarded[g] => meter_value # NoNumber
       /\ (attached' /\ attach_pc' = "idle")
             => meter_value' = (IF restored' = NoNumber THEN 0 ELSE restored')
                               + SumOf(forwarded'[gen'])]_vars


(***************************************************************************)
(* The water heater's target fields.                                       *)
(***************************************************************************)
\* C30: when the water heater's target temperature is unknown, its minimum,
\* maximum, high target and low target are unknown too; when it is known,
\* the high target equals it and the low target is the target minus the
\* hysteresis the device reports, or the target when it reports none.
C30_TargetsConsistent ==
    /\ heater.target_temperature = NoNumber
          => /\ heater.min_temp = NoNumber
             /\ heater.max_temp = NoNumber
             /\ heater.target_temperature_high = NoNumber
             /\ heater.target_temperature_low = NoNumber
    /\ heater.target_temperature # NoNumber
          => /\ heater.target_temperature_high = heater.target_temperature
             /\ heater.target_temperature_low =
                   IF device_attrs.hysteresis = NoNumber
                   THEN heater.target_temperature
                   ELSE heater.target_temperature - device_attrs.hysteresis

====
